---- MODULE Spec2Model ----
(***************************************************************************)
(* A model of ikebuster: the IKEv1 message generator and parser (bytes on  *)
(* the wire), the transform enumeration, the bisection of a remainder and  *)
(* the scan driver loop with its channel and responder.                    *)
(***************************************************************************)
EXTENDS Integers, Sequences, FiniteSets, TLC

(***************************************************************************)
(* Bounds of the model.                                                    *)
(***************************************************************************)
\* longest batch whose transforms are enumerated exhaustively by the codec
MaxBatchLen == 3
\* longest remainder handed to the bisection on its own
MaxRem == 4
\* largest transform_no the enumeration and the scan are run with
MaxTransformNo == 4
\* largest accepted set S of the responder
MaxAccepted == 2
\* longest batch whose generated payloads are cut short
MaxTruncBatch == 1
\* most failures of the socket and the wire in one scan: a failed send, a
\* failed recv, a datagram that does not parse
MaxFaults == 1
\* most probes a responder of any behaviour answers in one scan
MaxAnswered == 1
\* most datagrams the socket of handle_receive delivers
MaxDatagrams == 2
\* most sample proposals in a Security Association of IKEv2
MaxProposals == 2
\* most sample payloads in a packet of IKEv2
MaxPayloads == 2

(***************************************************************************)
(* Integer widths and wire sizes.                                          *)
(***************************************************************************)
U8Mod == 256
U16Mod == 65536

\* size_of::<Header>()
HeaderSize == 28
\* size_of::<StaticSecurityAssociationPayload>(): generic header + doi
StaticSaSize == 8
\* size_of::<StaticProposalPayload>(): generic header + 4 one-byte fields
StaticProposalSize == 8
\* size_of::<StaticTransformPayload>(): generic header + no + id + reserved
StaticTransformSize == 8
\* size_of::<DataAttributeShort>() and size_of::<StaticDataAttributeLong>()
DataAttributeShortSize == 4
StaticDataAttributeLongSize == 4
\* size_of::<StaticVendorIDPayload>(): the generic header alone
StaticVendorIDSize == 4
\* size_of::<StaticNotificationPayload>(): generic + doi + proto + spi + type
StaticNotificationSize == 12

\* PayloadType
PT_None == 0
PT_SecurityAssociation == 1
PT_Proposal == 2
PT_Transform == 3
PT_Notification == 11
PT_VendorID == 13
PayloadTypeKnown == 0..13

\* ExchangeType
ET_None == 0
ET_IdentityProtection == 2
ET_Informational == 5
ET_Base == 1
ExchangeTypeKnown == {0, 1, 2, 3, 4, 5}

\* AttributeType (the wire value without the short-form bit)
AT_EncryptionAlgorithm == 1
AT_HashAlgorithm == 2
AT_AuthenticationMethod == 3
AT_GroupDescription == 4
AT_LifeType == 11
AT_LifeDuration == 12
AT_KeyLength == 14
AttributeTypeKnown == 0..16

\* NotifyMessageType
NMT_NoProposalChosen == 14
NotifyMessageTypeKnown == 1..30

\* LifeType::Seconds and the life duration the generator announces
LifeTypeSeconds == 1
LifeDurationValue == 7080

\* EncryptionAlgorithm::AES_CBC
AES_CBC == 7

\* <Enum>::iter(): the variants in declaration order (a prefix of each
\* identifier space, the reserved value 0 included)
EncryptionAlgorithmIter == <<0, 5, 7>>
HashAlgorithmIter == <<0, 1, 2>>
AuthenticationMethodIter == <<0, 1>>
GroupDescriptionIter == <<0, 2>>

\* <Enum>::try_from(u16) succeeds on the known values
EncryptionAlgorithmKnown == 0..8
HashAlgorithmKnown == 0..6
AuthenticationMethodKnown == 0..5
GroupDescriptionKnown == 0..18

(***************************************************************************)
(* Helpers on sequences and bytes.                                         *)
(***************************************************************************)
Range(s) == {s[i] : i \in DOMAIN s}

\* zerocopy U16::new(v).as_bytes(): network byte order
U16Bytes(v) == <<(v \div 256) % 256, v % 256>>
\* zerocopy U32::new(v).as_bytes()
U32Bytes(v) ==
    <<(v \div 16777216) % 256, (v \div 65536) % 256, (v \div 256) % 256,
      v % 256>>
\* zerocopy U64::new(v).as_bytes(), for the cookies below 2^31 of the model
U64Bytes(v) == <<0, 0, 0, 0>> \o U32Bytes(v)

\* Option<u16>: None is <<>>, Some(v) is <<v>>
None == <<>>
Some(v) == <<v>>

\* Transform of the generator
Transform(e, h, a, g, k) ==
    [encryption_algorithm |-> e, hash_algorithm |-> h,
     authentication_method |-> a, group_description |-> g, key_size |-> k]

(***************************************************************************)
(* MessageBuilder::build                                                   *)
(***************************************************************************)
\* DataAttributeShort { attribute_type, attribute_value }.as_bytes()
DataAttributeShortBytes(ty, val) == U16Bytes(32768 + ty) \o U16Bytes(val)

\* the attributes of one transform, in the generator's order
SaAttributes(t) ==
    DataAttributeShortBytes(AT_EncryptionAlgorithm, t.encryption_algorithm)
    \o DataAttributeShortBytes(AT_HashAlgorithm, t.hash_algorithm)
    \o DataAttributeShortBytes(AT_AuthenticationMethod, t.authentication_method)
    \o DataAttributeShortBytes(AT_GroupDescription, t.group_description)
    \o DataAttributeShortBytes(AT_LifeType, LifeTypeSeconds)
    \o DataAttributeShortBytes(AT_LifeDuration, LifeDurationValue)
    \o (IF t.key_size # None
        THEN DataAttributeShortBytes(AT_KeyLength, t.key_size[1])
        ELSE <<>>)

\* one transform payload: i is the 0-based index, n the number of transforms
TransformPayloadBytes(i, n, t) ==
    LET sa_attributes == SaAttributes(t)
        next_payload == IF i < n - 1 THEN PT_Transform ELSE PT_None
        payload_length == (StaticTransformSize + Len(sa_attributes)) % U16Mod
    IN  <<next_payload, 0>> \o U16Bytes(payload_length)
        \o <<i % U8Mod, 1, 0, 0>> \o sa_attributes

\* transforms_raw once the payloads of the transforms lo..hi were appended
\* in order (the range is halved to keep the evaluation shallow)
RECURSIVE TransformsRaw(_, _, _)
TransformsRaw(transforms, lo, hi) ==
    IF lo > hi THEN <<>>
    ELSE IF lo = hi
    THEN TransformPayloadBytes(lo - 1, Len(transforms), transforms[lo])
    ELSE LET mid == (lo + hi) \div 2
         IN  TransformsRaw(transforms, lo, mid)
             \o TransformsRaw(transforms, mid + 1, hi)

\* msg.resize(n, 0)
Resize(s, n) ==
    IF n <= Len(s) THEN SubSeq(s, 1, n)
    ELSE s \o [i \in 1..(n - Len(s)) |-> 0]

\* overall_msg_length after the `remaining` adjustment
RoundedLengthPastAligned(len) == len + (4 - (len % 4))

RoundedLength(len) ==
    LET remaining == len % 4
    IN  IF remaining # 0 THEN len + remaining ELSE len

Build(transforms, initiator_cookie) ==
    LET transforms_raw == TransformsRaw(transforms, 1, Len(transforms))
        situation == <<0, 0, 0, 1>>
        spi == <<>>
        proposal_size == StaticProposalSize + Len(spi) + Len(transforms_raw)
        sa_size == StaticSaSize + Len(situation) + proposal_size
        overall_msg_length == RoundedLength(HeaderSize + sa_size)
        header == U64Bytes(initiator_cookie) \o U64Bytes(0)
                  \o <<PT_SecurityAssociation, 16, ET_IdentityProtection, 0>>
                  \o U32Bytes(0) \o U32Bytes(overall_msg_length)
        sa == <<PT_None, 0>> \o U16Bytes(sa_size % U16Mod) \o U32Bytes(1)
        proposal == <<PT_None, 0>> \o U16Bytes(proposal_size % U16Mod)
                    \o <<1, 1, 0, Len(transforms) % U8Mod>>
    IN  Resize(header \o sa \o situation \o proposal \o spi \o transforms_raw,
               overall_msg_length)

(***************************************************************************)
(* The IKEv1 parser.  A buffer `&buf[..]` is the part b[lo..hi) of the     *)
(* byte sequence b (offsets count from 0).  A parser returns Ok(value),    *)
(* Err(error), Panic (an out-of-range slice or todo!()) or Hang (a walk    *)
(* that repeats the same pass forever).                                    *)
(*                                                                         *)
(* A `while start < remaining.len()` walk is modelled by its single pass,  *)
(* which maps the loop state More(start, acc) to the next loop state or to *)
(* the result of the walk; by the run of at most `fuel` passes (halved to  *)
(* keep the evaluation shallow); and by the loop itself, which runs 1, 2,  *)
(* 4, ... further passes until a pass returns the result.  A value that    *)
(* the code binds with `let` and uses more than once is the last parameter *)
(* of an operator named ...On.                                             *)
(***************************************************************************)
Ok(v) == [tag |-> "Ok", val |-> v]
Err(e) == [tag |-> "Err", err |-> e]
Panic == [tag |-> "Panic"]
Hang == [tag |-> "Hang"]
More(start, acc) == [tag |-> "More", start |-> start, acc |-> acc]

U8At(b, off) == b[off + 1]
U16At(b, off) == b[off + 1] * 256 + b[off + 2]
U32At(b, off) == U16At(b, off) * 65536 + U16At(b, off + 2)
\* buf[from..to].to_vec() of a range that is known to be in bounds
Bytes(b, from, to) == [i \in 1..(to - from) |-> b[from + i]]

\* parse_data_attribute: Ok([attr, len])
parse_data_attribute(b, lo, hi) ==
    IF hi - lo < 1 THEN Err("BufferTooSmall")
    ELSE IF U8At(b, lo) \div 128 = 0
    THEN \* long
        IF hi - lo < StaticDataAttributeLongSize THEN Err("BufferTooSmall")
        ELSE IF StaticDataAttributeLongSize + U16At(b, lo + 2) > hi - lo
        THEN Err("BufferTooSmall")
        ELSE IF U16At(b, lo) \notin AttributeTypeKnown
        THEN Err("UnparsableVariant")
        ELSE Ok([attr |-> [kind |-> "Long",
                           attribute_type |-> U16At(b, lo),
                           attribute_bytes |->
                               Bytes(b, lo + StaticDataAttributeLongSize,
                                     lo + StaticDataAttributeLongSize
                                        + U16At(b, lo + 2))],
                 len |-> StaticDataAttributeLongSize + U16At(b, lo + 2)])
    ELSE \* short
        IF hi - lo < DataAttributeShortSize THEN Err("BufferTooSmall")
        ELSE IF (U16At(b, lo) % 32768) \notin AttributeTypeKnown
        THEN Err("UnparsableVariant")
        ELSE Ok([attr |-> [kind |-> "Short",
                           attribute_type |-> U16At(b, lo) % 32768,
                           attribute_value |-> U16At(b, lo + 2)],
                 len |-> DataAttributeShortSize])

\* one pass of the attribute walk of parse_transform, remaining = b[lo..hi)
AttributePassOn(st, r) ==
    IF r.tag # "Ok" THEN r
    ELSE More(st.start + r.val.len, Append(st.acc, r.val.attr))

AttributePass(b, lo, hi, st) ==
    IF ~(st.start < hi - lo) THEN Ok(st.acc)
    ELSE AttributePassOn(st, parse_data_attribute(b, lo + st.start, hi))

RECURSIVE AttributeWalk(_, _, _, _, _)
AttributeWalkOn(b, lo, hi, fuel, s1) ==
    IF s1.tag # "More" THEN s1 ELSE AttributeWalk(b, lo, hi, s1, fuel)

AttributeWalk(b, lo, hi, st, fuel) ==
    IF fuel <= 1 THEN AttributePass(b, lo, hi, st)
    ELSE AttributeWalkOn(b, lo, hi, fuel - fuel \div 2,
                         AttributeWalk(b, lo, hi, st, fuel \div 2))

RECURSIVE AttributeWalkLoop(_, _, _, _, _)
AttributeWalkLoopOn(b, lo, hi, fuel, s1) ==
    IF s1.tag # "More" THEN s1 ELSE AttributeWalkLoop(b, lo, hi, s1, 2 * fuel)

AttributeWalkLoop(b, lo, hi, st, fuel) ==
    AttributeWalkLoopOn(b, lo, hi, fuel, AttributeWalk(b, lo, hi, st, fuel))

TransformAttributes(b, lo, hi) == AttributeWalkLoop(b, lo, hi, More(0, <<>>), 1)

parse_transformOn(b, lo, attrs) ==
    IF attrs.tag # "Ok" THEN attrs
    ELSE Ok([next_payload |-> U8At(b, lo),
             length |-> U16At(b, lo + 2),
             transform_no |-> U8At(b, lo + 4),
             transform_id |-> U8At(b, lo + 5),
             sa_attributes |-> attrs.val])

parse_transform(b, lo, hi) ==
    IF hi - lo < StaticTransformSize THEN Err("BufferTooSmall")
    ELSE IF U8At(b, lo + 1) # 0 \/ U16At(b, lo + 6) # 0
    THEN Err("UnexpectedPayload")
    ELSE IF U8At(b, lo) \notin PayloadTypeKnown THEN Err("UnparsableVariant")
    \* &buf[static_size..transform.length as usize]
    ELSE IF U16At(b, lo + 2) < StaticTransformSize \/ U16At(b, lo + 2) > hi - lo
    THEN Panic
    ELSE parse_transformOn(b, lo,
             TransformAttributes(b, lo + StaticTransformSize,
                                 lo + U16At(b, lo + 2)))

\* one pass of the transform walk of parse_proposal, remaining = b[lo..hi)
TransformPassOn(st, r) ==
    IF r.tag # "Ok" THEN r
    ELSE More(st.start + r.val.length, Append(st.acc, r.val))

TransformPass(b, lo, hi, st) ==
    IF ~(st.start < hi - lo) THEN Ok(st.acc)
    ELSE TransformPassOn(st, parse_transform(b, lo + st.start, hi))

RECURSIVE TransformWalk(_, _, _, _, _)
TransformWalkOn(b, lo, hi, fuel, s1) ==
    IF s1.tag # "More" THEN s1 ELSE TransformWalk(b, lo, hi, s1, fuel)

TransformWalk(b, lo, hi, st, fuel) ==
    IF fuel <= 1 THEN TransformPass(b, lo, hi, st)
    ELSE TransformWalkOn(b, lo, hi, fuel - fuel \div 2,
                         TransformWalk(b, lo, hi, st, fuel \div 2))

RECURSIVE TransformWalkLoop(_, _, _, _, _)
TransformWalkLoopOn(b, lo, hi, fuel, s1) ==
    IF s1.tag # "More" THEN s1 ELSE TransformWalkLoop(b, lo, hi, s1, 2 * fuel)

TransformWalkLoop(b, lo, hi, st, fuel) ==
    TransformWalkLoopOn(b, lo, hi, fuel, TransformWalk(b, lo, hi, st, fuel))

ProposalTransforms(b, lo, hi) == TransformWalkLoop(b, lo, hi, More(0, <<>>), 1)

parse_proposalOn(b, lo, ts) ==
    IF ts.tag # "Ok" THEN ts
    ELSE IF Len(ts.val) # U8At(b, lo + 7) THEN Err("UnexpectedPayload")
    ELSE Ok([next_payload |-> U8At(b, lo),
             length |-> U16At(b, lo + 2),
             proposal_no |-> U8At(b, lo + 4),
             protocol_id |-> U8At(b, lo + 5),
             spi_size |-> U8At(b, lo + 6),
             no_of_transforms |-> U8At(b, lo + 7),
             spi |-> Bytes(b, lo + StaticProposalSize,
                           lo + StaticProposalSize + U8At(b, lo + 6)),
             transforms |-> ts.val])

parse_proposal(b, lo, hi) ==
    IF hi - lo < StaticProposalSize THEN Err("BufferTooSmall")
    ELSE IF U8At(b, lo + 1) # 0 THEN Err("UnexpectedPayload")
    ELSE IF StaticProposalSize + U8At(b, lo + 6) > hi - lo
    THEN Err("BufferTooSmall")
    ELSE IF U8At(b, lo) \notin PayloadTypeKnown THEN Err("UnparsableVariant")
    \* remaining = &buf[static_size + spi_size..]: up to the end of the buffer
    ELSE parse_proposalOn(
             b, lo,
             ProposalTransforms(b, lo + StaticProposalSize + U8At(b, lo + 6),
                                hi))

\* one pass of the proposal walk of parse_security_association, remaining
\* = b[lo..hi); a proposal of declared length 0 leaves `start` as it was,
\* so that every later pass is this pass again
ProposalPassOn(st, r) ==
    IF r.tag # "Ok" THEN r
    ELSE IF r.val.length = 0 THEN Hang
    ELSE More(st.start + r.val.length, Append(st.acc, r.val))

ProposalPass(b, lo, hi, st) ==
    IF ~(st.start < hi - lo) THEN Ok(st.acc)
    ELSE ProposalPassOn(st, parse_proposal(b, lo + st.start, hi))

RECURSIVE ProposalWalk(_, _, _, _, _)
ProposalWalkOn(b, lo, hi, fuel, s1) ==
    IF s1.tag # "More" THEN s1 ELSE ProposalWalk(b, lo, hi, s1, fuel)

ProposalWalk(b, lo, hi, st, fuel) ==
    IF fuel <= 1 THEN ProposalPass(b, lo, hi, st)
    ELSE ProposalWalkOn(b, lo, hi, fuel - fuel \div 2,
                        ProposalWalk(b, lo, hi, st, fuel \div 2))

RECURSIVE ProposalWalkLoop(_, _, _, _, _)
ProposalWalkLoopOn(b, lo, hi, fuel, s1) ==
    IF s1.tag # "More" THEN s1 ELSE ProposalWalkLoop(b, lo, hi, s1, 2 * fuel)

ProposalWalkLoop(b, lo, hi, st, fuel) ==
    ProposalWalkLoopOn(b, lo, hi, fuel, ProposalWalk(b, lo, hi, st, fuel))

SaProposals(b, lo, hi) == ProposalWalkLoop(b, lo, hi, More(0, <<>>), 1)

\* DomainOfInterpretation::try_from succeeds on ISAKMP (0) and IPsec (1)
DomainOfInterpretationKnown == {0, 1}

parse_security_associationOn(b, lo, ps) ==
    IF ps.tag # "Ok" THEN ps
    ELSE Ok([next_payload |-> U8At(b, lo),
             length |-> U16At(b, lo + 2),
             domain_of_interpretation |-> U32At(b, lo + 4),
             situation |-> Bytes(b, lo + StaticSaSize, lo + StaticSaSize + 4),
             proposal_payload |-> ps.val])

parse_security_association(b, lo, hi) ==
    IF hi - lo < StaticSaSize THEN Err("BufferTooSmall")
    ELSE IF U8At(b, lo + 1) # 0 THEN Err("UnexpectedPayload")
    ELSE IF U8At(b, lo) \notin PayloadTypeKnown THEN Err("UnparsableVariant")
    ELSE IF U32At(b, lo + 4) \notin DomainOfInterpretationKnown
    THEN Err("UnparsableVariant")
    ELSE IF hi - lo - StaticSaSize < 4 THEN Err("BufferTooSmall")
    \* &buf[static_size + 4..security_association.length as usize]
    ELSE IF U16At(b, lo + 2) < StaticSaSize + 4 \/ U16At(b, lo + 2) > hi - lo
    THEN Panic
    ELSE parse_security_associationOn(b, lo,
             SaProposals(b, lo + StaticSaSize + 4, lo + U16At(b, lo + 2)))

parse_vendor_id(b, lo, hi) ==
    IF hi - lo < StaticVendorIDSize THEN Err("BufferTooSmall")
    ELSE IF U8At(b, lo + 1) # 0 THEN Err("UnexpectedPayload")
    \* buf[static_size..payload_length as usize]
    ELSE IF U16At(b, lo + 2) < StaticVendorIDSize \/ U16At(b, lo + 2) > hi - lo
    THEN Panic
    ELSE IF U8At(b, lo) \notin PayloadTypeKnown THEN Err("UnparsableVariant")
    ELSE Ok([next_payload |-> U8At(b, lo),
             length |-> U16At(b, lo + 2),
             vendor_id |-> Bytes(b, lo + StaticVendorIDSize,
                                 lo + U16At(b, lo + 2))])

parse_notification(b, lo, hi) ==
    IF hi - lo < StaticNotificationSize THEN Err("BufferTooSmall")
    ELSE IF U8At(b, lo + 1) # 0 THEN Err("UnexpectedPayload")
    ELSE IF U8At(b, lo) \notin PayloadTypeKnown THEN Err("UnparsableVariant")
    ELSE IF U16At(b, lo + 10) \notin NotifyMessageTypeKnown
    THEN Err("UnparsableVariant")
    ELSE Ok([next_payload |-> U8At(b, lo),
             length |-> U16At(b, lo + 2),
             protocol_id |-> U8At(b, lo + 8),
             notify_message_type |-> U16At(b, lo + 10),
             notification |-> Bytes(b, lo + StaticNotificationSize, hi)])

\* parse_next_payload: Ok([payload_size, next_payload_type, kind, payload])
parse_next_payloadOn(payload_type, r) ==
    IF r.tag # "Ok" THEN r
    ELSE Ok([payload_size |-> r.val.length,
             next_payload_type |-> r.val.next_payload,
             kind |-> payload_type,
             payload |-> r.val])

parse_next_payload(b, lo, hi, payload_type) ==
    parse_next_payloadOn(payload_type,
        CASE payload_type = PT_Notification -> parse_notification(b, lo, hi)
          [] payload_type = PT_SecurityAssociation ->
                 parse_security_association(b, lo, hi)
          [] payload_type = PT_VendorID -> parse_vendor_id(b, lo, hi)
          [] payload_type = PT_Proposal -> parse_proposal(b, lo, hi)
          [] payload_type = PT_Transform -> parse_transform(b, lo, hi)
          [] payload_type = PT_None -> Err("UnexpectedPayload")
          [] OTHER -> Panic)  \* todo!()

\* parse_header of ike-parser: &buf[..HEADER_SIZE] panics on a short buffer;
\* a cookie is kept as its eight bytes
parse_header(b) ==
    IF Len(b) < HeaderSize THEN Panic
    ELSE IF U8At(b, 18) \notin ExchangeTypeKnown THEN Err("UnparsableVariant")
    ELSE IF U8At(b, 16) \notin PayloadTypeKnown THEN Err("UnparsableVariant")
    ELSE Ok([initiator_cookie |-> Bytes(b, 0, 8),
             responder_cookie |-> Bytes(b, 8, 16),
             major_version |-> U8At(b, 17) \div 16,
             minor_version |-> (U8At(b, 17) * 16) % U8Mod,
             flags |-> U8At(b, 19),
             exchange_mode |-> U8At(b, 18),
             length |-> U32At(b, 24),
             message_id |-> U32At(b, 20),
             next_payload |-> U8At(b, 16)])

\* packet.<list>.push(payload)
PushPayload(pkt, kind, payload) ==
    CASE kind = PT_Notification ->
             [pkt EXCEPT !.notification_payloads = Append(@, payload)]
      [] kind = PT_SecurityAssociation ->
             [pkt EXCEPT !.security_associations = Append(@, payload)]
      [] kind = PT_VendorID -> [pkt EXCEPT !.vendor_ids = Append(@, payload)]
      [] kind = PT_Proposal -> [pkt EXCEPT !.proposals = Append(@, payload)]
      [] kind = PT_Transform -> [pkt EXCEPT !.transforms = Append(@, payload)]

\* one pass of the `loop` of parse_packet; the loop state is
\* [curr_offset, next_payload, packet].  A payload of declared length 0 whose
\* next-payload tag is its own type leaves the loop state as it was.
PayloadPassOn(st, r) ==
    IF r.tag # "Ok" THEN r
    ELSE IF r.val.payload_size = 0 /\ r.val.next_payload_type = st.next_payload
    THEN Hang
    ELSE [tag |-> "More",
          curr_offset |-> st.curr_offset + r.val.payload_size,
          next_payload |-> r.val.next_payload_type,
          packet |-> PushPayload(st.packet, r.val.kind, r.val.payload)]

PayloadPass(b, st) ==
    IF st.next_payload = PT_None THEN Ok(st.packet)
    ELSE IF st.curr_offset > Len(b) THEN Panic  \* &buf[curr_offset..]
    ELSE PayloadPassOn(st, parse_next_payload(b, st.curr_offset, Len(b),
                                              st.next_payload))

RECURSIVE PayloadWalk(_, _, _)
PayloadWalkOn(b, fuel, s1) ==
    IF s1.tag # "More" THEN s1 ELSE PayloadWalk(b, s1, fuel)

PayloadWalk(b, st, fuel) ==
    IF fuel <= 1 THEN PayloadPass(b, st)
    ELSE PayloadWalkOn(b, fuel - fuel \div 2, PayloadWalk(b, st, fuel \div 2))

RECURSIVE PayloadWalkLoop(_, _, _)
PayloadWalkLoopOn(b, fuel, s1) ==
    IF s1.tag # "More" THEN s1 ELSE PayloadWalkLoop(b, s1, 2 * fuel)

PayloadWalkLoop(b, st, fuel) ==
    PayloadWalkLoopOn(b, fuel, PayloadWalk(b, st, fuel))

parse_packetOn(b, h) ==
    IF h.tag # "Ok" THEN h
    ELSE IF h.val.exchange_mode = ET_None THEN Err("UnexpectedPayload")
    ELSE PayloadWalkLoop(b,
                         [tag |-> "More",
                          curr_offset |-> HeaderSize,
                          next_payload |-> h.val.next_payload,
                          packet |-> [header |-> h.val,
                                      notification_payloads |-> <<>>,
                                      security_associations |-> <<>>,
                                      proposals |-> <<>>,
                                      transforms |-> <<>>,
                                      vendor_ids |-> <<>>]],
                         1)

parse_packet(b) == parse_packetOn(b, parse_header(b))

(***************************************************************************)
(* payload_to_transforms                                                   *)
(***************************************************************************)
\* the five `let mut` options of one transform; `invalid` is set when a `?`
\* returned InvalidTransform
NoAttributes ==
    [invalid |-> FALSE,
     encryption_algorithm |-> None, hash_algorithm |-> None,
     authentication_method |-> None, group_description |-> None,
     key_size |-> None]

\* u16::from_be_bytes([a, b]) of a long attribute, the value of a short one
AttributeValue(attr) ==
    IF attr.kind = "Short" THEN attr.attribute_value
    ELSE attr.attribute_bytes[1] * 256 + attr.attribute_bytes[2]

\* the `match attr.attribute_type` on an attribute whose value is `value`
AttributeMatch(st, ty, value) ==
    CASE ty = AT_EncryptionAlgorithm ->
             IF value \in EncryptionAlgorithmKnown
             THEN [st EXCEPT !.encryption_algorithm = Some(value)]
             ELSE [st EXCEPT !.invalid = TRUE]
      [] ty = AT_HashAlgorithm ->
             IF value \in HashAlgorithmKnown
             THEN [st EXCEPT !.hash_algorithm = Some(value)]
             ELSE [st EXCEPT !.invalid = TRUE]
      [] ty = AT_AuthenticationMethod ->
             IF value \in AuthenticationMethodKnown
             THEN [st EXCEPT !.authentication_method = Some(value)]
             ELSE [st EXCEPT !.invalid = TRUE]
      [] ty = AT_GroupDescription ->
             IF value \in GroupDescriptionKnown
             THEN [st EXCEPT !.group_description = Some(value)]
             ELSE [st EXCEPT !.invalid = TRUE]
      [] ty = AT_KeyLength -> [st EXCEPT !.key_size = Some(value)]
      [] OTHER -> st

\* the body of `for attr in &transform.sa_attributes`
AttributeStep(st, attr) ==
    IF st.invalid THEN st
    ELSE IF attr.kind = "Long" /\ Len(attr.attribute_bytes) < 2
    THEN [st EXCEPT !.invalid = TRUE]
    ELSE AttributeMatch(st, attr.attribute_type, AttributeValue(attr))

\* the options after the attributes 1..k
RECURSIVE AttributeFold(_, _)
AttributeFold(attrs, k) ==
    IF k = 0 THEN NoAttributes
    ELSE AttributeStep(AttributeFold(attrs, k - 1), attrs[k])

\* v.push(Transform { .. }) with the `ok_or_else(|| InvalidTransform)?`
TransformPush(v, st) ==
    IF st.invalid THEN Err("InvalidTransform")
    ELSE IF st.encryption_algorithm = None \/ st.hash_algorithm = None
            \/ st.authentication_method = None \/ st.group_description = None
    THEN Err("InvalidTransform")
    ELSE Ok(Append(v.val,
                   Transform(st.encryption_algorithm[1], st.hash_algorithm[1],
                             st.authentication_method[1],
                             st.group_description[1], st.key_size)))

\* the body of `for transform in &payload.transforms`: v is Ok(vector so
\* far) or the error already returned
TransformStep(v, transform) ==
    IF v.tag # "Ok" THEN v
    ELSE TransformPush(v, AttributeFold(transform.sa_attributes,
                                        Len(transform.sa_attributes)))

\* the loop over the transforms lo..hi, started with v (the range is halved
\* to keep the evaluation shallow)
RECURSIVE TransformsOf(_, _, _, _)
TransformsOfOn(transforms, lo, hi, v1) ==
    IF v1.tag # "Ok" THEN v1 ELSE TransformsOf(transforms, v1, lo, hi)

TransformsOf(transforms, v, lo, hi) ==
    IF lo > hi THEN v
    ELSE IF lo = hi THEN TransformStep(v, transforms[lo])
    ELSE TransformsOfOn(transforms, (lo + hi) \div 2 + 1, hi,
                        TransformsOf(transforms, v, lo, (lo + hi) \div 2))

payload_to_transforms(payload) ==
    TransformsOf(payload.transforms, Ok(<<>>), 1, Len(payload.transforms))

(***************************************************************************)
(* gen_v1_transforms                                                       *)
(***************************************************************************)
\* .filter(|x| *x as u16 != 0)
IsNonZero(x) == x # 0
NonZero(iter) == SelectSeq(iter, IsNonZero)

\* iproduct!(E, H, A, G): the tuples in the order of nested loops, the last
\* iterator varying fastest
IProduct(E, H, A, G) ==
    [k \in 1..(Len(E) * Len(H) * Len(A) * Len(G)) |->
        <<E[((k - 1) \div (Len(H) * Len(A) * Len(G))) + 1],
          H[(((k - 1) \div (Len(A) * Len(G))) % Len(H)) + 1],
          A[(((k - 1) \div Len(G)) % Len(A)) + 1],
          G[((k - 1) % Len(G)) + 1]>>]

\* the closure of the fold: the accumulator after one more transform
FoldStepTwoKeySizes(acc, transform) ==
    IF transform.encryption_algorithm = AES_CBC
    THEN acc \o <<[transform EXCEPT !.key_size = Some(128)],
                  [transform EXCEPT !.key_size = Some(256)]>>
    ELSE Append(acc, transform)

FoldStep(acc, transform) ==
    IF transform.encryption_algorithm = AES_CBC
    THEN acc \o <<[transform EXCEPT !.key_size = Some(128)],
                  [transform EXCEPT !.key_size = Some(192)],
                  [transform EXCEPT !.key_size = Some(256)]>>
    ELSE Append(acc, transform)

\* .map(..).fold(Vec::new(), ..) over the first k tuples
RECURSIVE FoldTuples(_, _)
FoldTuples(tuples, k) ==
    IF k = 0 THEN <<>>
    ELSE FoldStep(FoldTuples(tuples, k - 1),
                  Transform(tuples[k][1], tuples[k][2], tuples[k][3],
                            tuples[k][4], None))

\* the local `transforms` of gen_v1_transforms
V1Transforms ==
    FoldTuples(IProduct(NonZero(EncryptionAlgorithmIter),
                        NonZero(HashAlgorithmIter),
                        NonZero(AuthenticationMethodIter),
                        NonZero(GroupDescriptionIter)),
               Len(NonZero(EncryptionAlgorithmIter))
                   * Len(NonZero(HashAlgorithmIter))
                   * Len(NonZero(AuthenticationMethodIter))
                   * Len(NonZero(GroupDescriptionIter)))

\* chunks of n + 1 members
ChunksOversized(s, n) ==
    [j \in 1..((Len(s) + n) \div (n + 1)) |->
        SubSeq(s, (j - 1) * (n + 1) + 1,
               IF j * (n + 1) < Len(s) THEN j * (n + 1) ELSE Len(s))]

\* slice::chunks(n) for n >= 1, collected into a queue
Chunks(s, n) ==
    [j \in 1..((Len(s) + n - 1) \div n) |->
        SubSeq(s, (j - 1) * n + 1, IF j * n < Len(s) THEN j * n ELSE Len(s))]

gen_v1_transforms(transform_no) == Chunks(V1Transforms, transform_no)

(***************************************************************************)
(* The receive branch of scan: remainder, bisection, new todos.            *)
(***************************************************************************)
\* all.clone().into_iter().filter(|x| !transforms.contains(x)).collect()
OtherUnfiltered(all, transforms) == all

Other(all, transforms) ==
    LET Keep(x) == x \notin Range(transforms)
    IN  SelectSeq(all, Keep)

\* the body of `for x in other`: ab is <<a, b>>
BisectPushInverted(ab, x) ==
    IF Len(ab[1]) # Len(ab[2]) THEN <<Append(ab[1], x), ab[2]>>
    ELSE <<ab[1], Append(ab[2], x)>>

BisectPush(ab, x) ==
    IF Len(ab[1]) = Len(ab[2]) THEN <<Append(ab[1], x), ab[2]>>
    ELSE <<ab[1], Append(ab[2], x)>>

\* <<a, b>> after the first k members of other
RECURSIVE BisectLoop(_, _)
BisectLoop(other, k) ==
    IF k = 0 THEN <<<<>>, <<>>>>
    ELSE BisectPush(BisectLoop(other, k - 1), other[k])

Bisect(other) == BisectLoop(other, Len(other))

\* create new todos
EnqueueBoth(todo_q, a, b) ==
    IF a # <<>> THEN Append(Append(todo_q, a), b) ELSE todo_q

Enqueue(todo_q, a, b) ==
    IF b # <<>> THEN Append(Append(todo_q, a), b)
    ELSE IF a # <<>> THEN Append(todo_q, a)
    ELSE todo_q

EnqueueHalves(todo_q, ab) == Enqueue(todo_q, ab[1], ab[2])

\* the body of `for prop in &sa.proposal_payload` once payload_to_transforms
\* returned r; st is [todo, found, do_sleep, open], do_sleep already set
ProposalBodyOn(st, open_map, initiator_cookie, r) ==
    IF r.tag # "Ok" THEN st
    ELSE IF initiator_cookie \notin DOMAIN open_map
    THEN [st EXCEPT !.found = @ \o r.val]
    ELSE [st EXCEPT !.found = @ \o r.val,
                    !.todo = EnqueueHalves(@,
                                 Bisect(Other(open_map[initiator_cookie],
                                              r.val)))]

\* a body that puts the batch back in the queue when a proposal does not
\* decode
ProposalBodyRequeue(st, open_map, initiator_cookie, prop) ==
    IF payload_to_transforms(prop).tag # "Ok"
       /\ initiator_cookie \in DOMAIN open_map
    THEN [st EXCEPT !.do_sleep = TRUE,
                    !.todo = Append(@, open_map[initiator_cookie])]
    ELSE ProposalBodyOn([st EXCEPT !.do_sleep = TRUE], open_map,
                        initiator_cookie, payload_to_transforms(prop))

ProposalBodyNoSleep(st, open_map, initiator_cookie, prop) ==
    ProposalBodyOn(st, open_map, initiator_cookie,
                   payload_to_transforms(prop))

ProposalBody(st, open_map, initiator_cookie, prop) ==
    ProposalBodyOn([st EXCEPT !.do_sleep = TRUE], open_map, initiator_cookie,
                   payload_to_transforms(prop))

\* `for prop in &sa.proposal_payload` over the first k proposals
RECURSIVE ProposalLoop(_, _, _, _, _)
ProposalLoop(st, open_map, initiator_cookie, props, k) ==
    IF k = 0 THEN st
    ELSE ProposalBody(
             ProposalLoop(st, open_map, initiator_cookie, props, k - 1),
             open_map, initiator_cookie, props[k])

\* `for sa in &msg.security_associations` over the first k SA payloads
RECURSIVE SaLoop(_, _, _, _, _)
SaLoop(st, open_map, initiator_cookie, sas, k) ==
    IF k = 0 THEN st
    ELSE ProposalLoop(SaLoop(st, open_map, initiator_cookie, sas, k - 1),
                      open_map, initiator_cookie, sas[k].proposal_payload,
                      Len(sas[k].proposal_payload))

\* open.remove(&cookie)
MapRemoveNothing(open_map, key) == open_map

MapRemove(open_map, key) ==
    [k \in DOMAIN open_map \ {key} |-> open_map[k]]
\* open.insert(cookie, transforms)
MapInsert(open_map, key, value) ==
    [k \in DOMAIN open_map \cup {key} |->
        IF k = key THEN value ELSE open_map[k]]

\* .iter().any(|x| x.notify_message_type == NoProposalChosen)
AnyNoProposalChosen(notification_payloads) ==
    \E i \in DOMAIN notification_payloads :
        notification_payloads[i].notify_message_type = NMT_NoProposalChosen

\* the arm Ok(msg) of the receive branch: st is [todo, found, do_sleep, open]
OnMessage(st, m) ==
    IF m.security_associations # <<>>
    THEN [SaLoop(st, st.open, m.header.initiator_cookie,
                 m.security_associations, Len(m.security_associations))
          EXCEPT !.open = MapRemove(@, m.header.initiator_cookie)]
    ELSE IF AnyNoProposalChosen(m.notification_payloads)
    THEN [st EXCEPT !.open = MapRemove(@, m.header.initiator_cookie)]
    ELSE st

\* the arm Err(err) of the receive branch: where the driver goes next
OnReceiveErrorFatal(err) == "err_receive"

OnReceiveErrorIgnored(err) == "select"

OnReceiveError(err) ==
    IF err = "Io" THEN "err_receive" ELSE "select"

\* `if todo.is_empty()` after the second tick
NothingMoreTodoInverted(todo_q) == todo_q # <<>>

NothingMoreTodo(todo_q) == todo_q = <<>>

\* #[derive(Ord)] of Transform: the fields in declaration order, with
\* None < Some(_) for the key size
KeyRank(k) == IF k = None THEN 0 - 1 ELSE k[1]
TransformKey(t) ==
    <<t.encryption_algorithm, t.hash_algorithm, t.authentication_method,
      t.group_description, KeyRank(t.key_size)>>
RECURSIVE LexLess(_, _, _)
LexLess(x, y, i) ==
    IF i > Len(x) THEN FALSE
    ELSE IF x[i] # y[i] THEN x[i] < y[i]
    ELSE LexLess(x, y, i + 1)
TransformLess(x, y) == LexLess(TransformKey(x), TransformKey(y), 1)

\* found.sort(): insertion of s[k] into the sorted first k - 1 members
SortInsert(sorted, x) ==
    LET before == SelectSeq(sorted, LAMBDA y : ~TransformLess(x, y))
        after == SelectSeq(sorted, LAMBDA y : TransformLess(x, y))
    IN  before \o <<x>> \o after
RECURSIVE SortFirst(_, _)
SortFirst(s, k) ==
    IF k = 0 THEN <<>> ELSE SortInsert(SortFirst(s, k - 1), s[k])
Sort(s) == SortFirst(s, Len(s))

\* found.dedup(): consecutive equal members collapse into the first
Dedup(s) ==
    LET keep == {i \in DOMAIN s : i = 1 \/ s[i] # s[i - 1]}
        Nth(j) == CHOOSE i \in keep : Cardinality({h \in keep : h < i}) = j - 1
    IN  [j \in 1..Cardinality(keep) |-> s[Nth(j)]]

(***************************************************************************)
(* IKEv2: the identifier spaces of definitions/params.rs.  A variant is    *)
(* its name; `variant as uN` reads the record of the enum, try_from is the *)
(* match of the code.  An UnparseableParameter is the name of its class.   *)
(***************************************************************************)
\* size_of::<ProposalHeader>(), ::<TransformHeader>(), ::<AttributeHeader>()
\* and ::<GenericPayloadHeader>()
ProposalHeaderSize == 8
TransformHeaderSize == 8
AttributeHeaderSize == 4
GenericPayloadHeaderSize == 4
FLAG_INITIATOR == 8
FLAG_RESPONSE == 32
FLAG_MORE_FOLLOWING_PROPOSALS == 2
FLAG_MORE_FOLLOWING_TRANSFORMS == 3
FLAG_ATTRIBUTE_FORMAT == 32768
CONST_FIRST_PROPOSAL_NUMBER == 1
IKE_2_VERSION_VALUE == 32

\* enum ExchangeType: the discriminants, `variant as u8`
ExchangeType ==
    [IkeSaInit |-> 34, IkeAuth |-> 35, CreateChildSa |-> 36,
     Informational |-> 37, IkeSessionResume |-> 38, GsaAuth |-> 39,
     GsaRegistration |-> 40, GsaRekey |-> 41, GsaInbandRekey |-> 42,
     IkeIntermediate |-> 43, IkeFollowupKeyExchange |-> 44]
\* ExchangeType::try_from, arm by arm
ExchangeType_try_from(value) ==
    CASE value \in 0..33 -> Err("Reserved")
      [] value = 34 -> Ok("IkeSaInit")
      [] value = 35 -> Ok("IkeAuth")
      [] value = 36 -> Ok("CreateChildSa")
      [] value = 37 -> Ok("Informational")
      [] value = 38 -> Ok("IkeSessionResume")
      [] value = 39 -> Ok("GsaAuth")
      [] value = 40 -> Ok("GsaRegistration")
      [] value = 41 -> Ok("GsaRekey")
      [] value = 42 -> Ok("GsaInbandRekey")
      [] value = 43 -> Ok("IkeIntermediate")
      [] value = 44 -> Ok("IkeFollowupKeyExchange")
      [] value \in 45..239 -> Err("Unassigned")
      [] value \in 240..255 -> Err("PrivateUse")

\* enum PayloadType: the discriminants, `variant as u8`
PayloadType ==
    [NoNextPayload |-> 0, SecurityAssociation |-> 33, KeyExchange |-> 34,
     IdentificationInitiator |-> 35, IdentificationResponder |-> 36,
     Certificate |-> 37, CertificateRequest |-> 38, Authentication |-> 39,
     Nonce |-> 40, Notify |-> 41, Delete |-> 42, VendorID |-> 43,
     TrafficSelectorInitiator |-> 44, TrafficSelectorResponder |-> 45,
     EncryptedAndAuthenticated |-> 46, Configuration |-> 47,
     ExtensibleAuthentication |-> 48, GenericSecurePasswordMethod |-> 49,
     GroupIdentification |-> 50, GroupSecureAssociation |-> 51,
     KeyDownload |-> 52, EncryptedAndAuthenticatedFragment |-> 53,
     PuzzleSolution |-> 54]
\* PayloadType::try_from, arm by arm
PayloadType_try_from(value) ==
    CASE value = 0 -> Ok("NoNextPayload")
      [] value \in 1..32 -> Err("Reserved")
      [] value = 33 -> Ok("SecurityAssociation")
      [] value = 34 -> Ok("KeyExchange")
      [] value = 35 -> Ok("IdentificationInitiator")
      [] value = 36 -> Ok("IdentificationResponder")
      [] value = 37 -> Ok("Certificate")
      [] value = 38 -> Ok("CertificateRequest")
      [] value = 39 -> Ok("Authentication")
      [] value = 40 -> Ok("Nonce")
      [] value = 41 -> Ok("Notify")
      [] value = 42 -> Ok("Delete")
      [] value = 43 -> Ok("VendorID")
      [] value = 44 -> Ok("TrafficSelectorInitiator")
      [] value = 45 -> Ok("TrafficSelectorResponder")
      [] value = 46 -> Ok("EncryptedAndAuthenticated")
      [] value = 47 -> Ok("Configuration")
      [] value = 48 -> Ok("ExtensibleAuthentication")
      [] value = 49 -> Ok("GenericSecurePasswordMethod")
      [] value = 50 -> Ok("GroupIdentification")
      [] value = 51 -> Ok("GroupSecureAssociation")
      [] value = 52 -> Ok("KeyDownload")
      [] value = 53 -> Ok("EncryptedAndAuthenticatedFragment")
      [] value = 54 -> Ok("PuzzleSolution")
      [] value \in 55..127 -> Err("Unassigned")
      [] value \in 128..255 -> Err("PrivateUse")

\* enum TransformType: the discriminants, `variant as u8`
TransformType ==
    [EncryptionAlgorithm |-> 1, PseudoRandomFunction |-> 2,
     IntegrityAlgorithm |-> 3, KeyExchangeMethod |-> 4,
     SequenceNumber |-> 5, AdditionalKeyExchange1 |-> 6,
     AdditionalKeyExchange2 |-> 7, AdditionalKeyExchange3 |-> 8,
     AdditionalKeyExchange4 |-> 9, AdditionalKeyExchange5 |-> 10,
     AdditionalKeyExchange6 |-> 11, AdditionalKeyExchange7 |-> 12,
     KeyWrapAlgorithm |-> 13, GroupControllerAuthenticationMethod |-> 14]
\* TransformType::try_from, arm by arm
TransformType_try_from(value) ==
    CASE value = 0 -> Err("Reserved")
      [] value = 1 -> Ok("EncryptionAlgorithm")
      [] value = 2 -> Ok("PseudoRandomFunction")
      [] value = 3 -> Ok("IntegrityAlgorithm")
      [] value = 4 -> Ok("KeyExchangeMethod")
      [] value = 5 -> Ok("SequenceNumber")
      [] value = 6 -> Ok("AdditionalKeyExchange1")
      [] value = 7 -> Ok("AdditionalKeyExchange2")
      [] value = 8 -> Ok("AdditionalKeyExchange3")
      [] value = 9 -> Ok("AdditionalKeyExchange4")
      [] value = 10 -> Ok("AdditionalKeyExchange5")
      [] value = 11 -> Ok("AdditionalKeyExchange6")
      [] value = 12 -> Ok("AdditionalKeyExchange7")
      [] value = 13 -> Ok("KeyWrapAlgorithm")
      [] value = 14 -> Ok("GroupControllerAuthenticationMethod")
      [] value \in 15..240 -> Err("Unassigned")
      [] value \in 241..255 -> Err("PrivateUse")

\* enum AttributeType: the discriminants, `variant as u16`
AttributeType ==
    [KeyLength |-> 14, SignatureAlgorithm |-> 18]
\* AttributeType::try_from, arm by arm
AttributeType_try_from(value) ==
    CASE value \in 0..13 -> Err("Reserved")
      [] value = 14 -> Ok("KeyLength")
      [] value \in 15..17 -> Err("Reserved")
      [] value = 18 -> Ok("SignatureAlgorithm")
      [] value \in 19..16383 -> Err("Reserved")
      [] value \in 16384..32767 -> Err("Reserved")
      [] value \in 32768..65535 -> Err("OutOfRange")

\* enum EncryptionAlgorithm: the discriminants, `variant as u16`
EncryptionAlgorithm ==
    [DesIv64 |-> 1, Des |-> 2, TripleDes |-> 3, Rc5 |-> 4, Idea |-> 5,
     Cast |-> 6, Blowfish |-> 7, TripleIdea |-> 8, DesIv32 |-> 9,
     Null |-> 11, AesCbc |-> 12, AesCtr |-> 13, AesCcm8 |-> 14,
     AesCcm12 |-> 15, AesCcm16 |-> 16, AesGcm8 |-> 18, AesGcm12 |-> 19,
     AesGcm16 |-> 20, NullAuthAesGmac |-> 21, CamelliaCbc |-> 23,
     CamelliaCtr |-> 24, CamelliaCcm8 |-> 25, CamelliaCcm12 |-> 26,
     CamelliaCcm16 |-> 27, Chacha20Poly1305 |-> 28, AesCcm8IIV |-> 29,
     AesGcm16IIV |-> 30, Chacha20Poly1305IIV |-> 31,
     KuznyechikMgmKTree |-> 32, MagmaMgmKTree |-> 33,
     KuznyechikMgmMacKTree |-> 34, MagmaMgmMacKTree |-> 35]
\* EncryptionAlgorithm::try_from, arm by arm
EncryptionAlgorithm_try_from(value) ==
    CASE value = 0 -> Err("Reserved")
      [] value = 1 -> Ok("DesIv64")
      [] value = 2 -> Ok("Des")
      [] value = 3 -> Ok("TripleDes")
      [] value = 4 -> Ok("Rc5")
      [] value = 5 -> Ok("Idea")
      [] value = 6 -> Ok("Cast")
      [] value = 7 -> Ok("Blowfish")
      [] value = 8 -> Ok("TripleIdea")
      [] value = 9 -> Ok("DesIv32")
      [] value = 10 -> Err("Reserved")
      [] value = 11 -> Ok("Null")
      [] value = 12 -> Ok("AesCbc")
      [] value = 13 -> Ok("AesCtr")
      [] value = 14 -> Ok("AesCcm8")
      [] value = 15 -> Ok("AesCcm12")
      [] value = 16 -> Ok("AesCcm16")
      [] value = 17 -> Err("Unassigned")
      [] value = 18 -> Ok("AesGcm8")
      [] value = 19 -> Ok("AesGcm12")
      [] value = 20 -> Ok("AesGcm16")
      [] value = 21 -> Ok("NullAuthAesGmac")
      [] value = 22 -> Err("Reserved")
      [] value = 23 -> Ok("CamelliaCbc")
      [] value = 24 -> Ok("CamelliaCtr")
      [] value = 25 -> Ok("CamelliaCcm8")
      [] value = 26 -> Ok("CamelliaCcm12")
      [] value = 27 -> Ok("CamelliaCcm16")
      [] value = 28 -> Ok("Chacha20Poly1305")
      [] value = 29 -> Ok("AesCcm8IIV")
      [] value = 30 -> Ok("AesGcm16IIV")
      [] value = 31 -> Ok("Chacha20Poly1305IIV")
      [] value = 32 -> Ok("KuznyechikMgmKTree")
      [] value = 33 -> Ok("MagmaMgmKTree")
      [] value = 34 -> Ok("KuznyechikMgmMacKTree")
      [] value = 35 -> Ok("MagmaMgmMacKTree")
      [] value \in 36..1023 -> Err("Unassigned")
      [] value \in 1024..65535 -> Err("PrivateUse")

\* enum PseudorandomFunction: the discriminants, `variant as u16`
PseudorandomFunction ==
    [HmacMd5 |-> 1, HmacSha1 |-> 2, HmacTiger |-> 3, Aes128Xcbc |-> 4,
     HmacSha2_256 |-> 5, HmacSha2_384 |-> 6, HmacSha2_512 |-> 7,
     Aes128Cmac |-> 8, HmacStreebog512 |-> 9]
\* PseudorandomFunction::try_from, arm by arm
PseudorandomFunction_try_from(value) ==
    CASE value = 0 -> Err("Reserved")
      [] value = 1 -> Ok("HmacMd5")
      [] value = 2 -> Ok("HmacSha1")
      [] value = 3 -> Ok("HmacTiger")
      [] value = 4 -> Ok("Aes128Xcbc")
      [] value = 5 -> Ok("HmacSha2_256")
      [] value = 6 -> Ok("HmacSha2_384")
      [] value = 7 -> Ok("HmacSha2_512")
      [] value = 8 -> Ok("Aes128Cmac")
      [] value = 9 -> Ok("HmacStreebog512")
      [] value \in 10..1023 -> Err("Unassigned")
      [] value \in 1024..65535 -> Err("PrivateUse")

\* enum IntegrityAlgorithm: the discriminants, `variant as u16`
IntegrityAlgorithm ==
    [None |-> 0, HmacMd5_96 |-> 1, HmacSha1_96 |-> 2, DesMac |-> 3,
     KpdkMd5 |-> 4, AesXcbc96 |-> 5, HmacMd5_128 |-> 6, HmacSha1_160 |-> 7,
     AesCmac96 |-> 8, Aes128Gmac |-> 9, Aes192Gmac |-> 10,
     Aes256Gmac |-> 11, HmacSha2_256_128 |-> 12, HmacSha2_384_192 |-> 13,
     HmacSha2_512_256 |-> 14]
\* IntegrityAlgorithm::try_from, arm by arm
IntegrityAlgorithm_try_from(value) ==
    CASE value = 0 -> Ok("None")
      [] value = 1 -> Ok("HmacMd5_96")
      [] value = 2 -> Ok("HmacSha1_96")
      [] value = 3 -> Ok("DesMac")
      [] value = 4 -> Ok("KpdkMd5")
      [] value = 5 -> Ok("AesXcbc96")
      [] value = 6 -> Ok("HmacMd5_128")
      [] value = 7 -> Ok("HmacSha1_160")
      [] value = 8 -> Ok("AesCmac96")
      [] value = 9 -> Ok("Aes128Gmac")
      [] value = 10 -> Ok("Aes192Gmac")
      [] value = 11 -> Ok("Aes256Gmac")
      [] value = 12 -> Ok("HmacSha2_256_128")
      [] value = 13 -> Ok("HmacSha2_384_192")
      [] value = 14 -> Ok("HmacSha2_512_256")
      [] value \in 15..1023 -> Err("Unassigned")
      [] value \in 1024..65535 -> Err("PrivateUse")

\* enum KeyExchangeMethod: the discriminants, `variant as u16`
KeyExchangeMethod ==
    [None |-> 0, ModP768 |-> 1, ModP1024 |-> 2, ModP1536 |-> 5,
     ModP2048 |-> 14, ModP3072 |-> 15, ModP4096 |-> 16, ModP6144 |-> 17,
     ModP8192 |-> 18, EcpGroup256 |-> 19, EcpGroup384 |-> 20,
     EcpGroup521 |-> 21, ModP1024with160Prime |-> 22,
     ModP2048with224Prime |-> 23, ModP2048with256Prime |-> 24,
     EcpGroup192 |-> 25, EcpGroup224 |-> 26, BrainPoolP224 |-> 27,
     BrainPoolP256 |-> 28, BrainPoolP384 |-> 29, BrainPoolP512 |-> 30,
     Curve25519 |-> 31, Curve448 |-> 32, Gost310_256 |-> 33,
     Gost310_512 |-> 34, MlKem512 |-> 35, MlKem768 |-> 36, MlKem1024 |-> 37]
\* KeyExchangeMethod::try_from, arm by arm
KeyExchangeMethod_try_from(value) ==
    CASE value = 0 -> Ok("None")
      [] value = 1 -> Ok("ModP768")
      [] value = 2 -> Ok("ModP1024")
      [] value \in 3..4 -> Err("Reserved")
      [] value = 5 -> Ok("ModP1536")
      [] value \in 6..13 -> Err("Unassigned")
      [] value = 14 -> Ok("ModP2048")
      [] value = 15 -> Ok("ModP3072")
      [] value = 16 -> Ok("ModP4096")
      [] value = 17 -> Ok("ModP6144")
      [] value = 18 -> Ok("ModP8192")
      [] value = 19 -> Ok("EcpGroup256")
      [] value = 20 -> Ok("EcpGroup384")
      [] value = 21 -> Ok("EcpGroup521")
      [] value = 22 -> Ok("ModP1024with160Prime")
      [] value = 23 -> Ok("ModP2048with224Prime")
      [] value = 24 -> Ok("ModP2048with256Prime")
      [] value = 25 -> Ok("EcpGroup192")
      [] value = 26 -> Ok("EcpGroup224")
      [] value = 27 -> Ok("BrainPoolP224")
      [] value = 28 -> Ok("BrainPoolP256")
      [] value = 29 -> Ok("BrainPoolP384")
      [] value = 30 -> Ok("BrainPoolP512")
      [] value = 31 -> Ok("Curve25519")
      [] value = 32 -> Ok("Curve448")
      [] value = 33 -> Ok("Gost310_256")
      [] value = 34 -> Ok("Gost310_512")
      [] value = 35 -> Ok("MlKem512")
      [] value = 36 -> Ok("MlKem768")
      [] value = 37 -> Ok("MlKem1024")
      [] value \in 38..1023 -> Err("Unassigned")
      [] value \in 1024..65535 -> Err("PrivateUse")

\* enum SequenceNumberType: the discriminants, `variant as u16`
SequenceNumberType ==
    [Sequential32bit |-> 0, PartiallyTransmitted64bit |-> 1,
     Unspecified32bit |-> 2]
\* SequenceNumberType::try_from, arm by arm
SequenceNumberType_try_from(value) ==
    CASE value = 0 -> Ok("Sequential32bit")
      [] value = 1 -> Ok("PartiallyTransmitted64bit")
      [] value = 2 -> Ok("Unspecified32bit")
      [] value \in 3..1023 -> Err("Unassigned")
      [] value \in 1024..65535 -> Err("PrivateUse")

\* enum NotifyErrorMessage: the discriminants, `variant as u16`
NotifyErrorMessage ==
    [UnsupportedCriticalPayload |-> 1, InvalidIkeSpi |-> 4,
     InvalidMajorVersion |-> 5, InvalidSyntax |-> 7, InvalidMessageId |-> 9,
     InvalidSpi |-> 11, NoProposalChosen |-> 14,
     InvalidKeyExchangePayload |-> 17, AuthenticationFailed |-> 24,
     SinglePairRequired |-> 34, NoAdditionalSas |-> 35,
     InternalAddressFailure |-> 36, FailedCpRequired |-> 37,
     TsUnacceptable |-> 38, InvalidSelectors |-> 39,
     UnacceptableAddresses |-> 40, UnexpectedNatDetected |-> 41,
     UseAssignedHoA |-> 42, TemporaryFailure |-> 43, ChildSaNotFound |-> 44,
     InvalidGroupId |-> 45, AuthorizationFailed |-> 46,
     StateNotFound |-> 47, TsMaxQueue |-> 48, RegistrationFailed |-> 49]
\* NotifyErrorMessage::try_from, arm by arm
NotifyErrorMessage_try_from(value) ==
    CASE value = 0 -> Err("Reserved")
      [] value = 1 -> Ok("UnsupportedCriticalPayload")
      [] value \in 2..3 -> Err("Reserved")
      [] value = 4 -> Ok("InvalidIkeSpi")
      [] value = 5 -> Ok("InvalidMajorVersion")
      [] value = 6 -> Err("Reserved")
      [] value = 7 -> Ok("InvalidSyntax")
      [] value = 8 -> Err("Reserved")
      [] value = 9 -> Ok("InvalidMessageId")
      [] value = 10 -> Err("Reserved")
      [] value = 11 -> Ok("InvalidSpi")
      [] value \in 12..13 -> Err("Reserved")
      [] value = 14 -> Ok("NoProposalChosen")
      [] value \in 15..16 -> Err("Reserved")
      [] value = 17 -> Ok("InvalidKeyExchangePayload")
      [] value \in 18..23 -> Err("Reserved")
      [] value = 24 -> Ok("AuthenticationFailed")
      [] value \in 25..33 -> Err("Reserved")
      [] value = 34 -> Ok("SinglePairRequired")
      [] value = 35 -> Ok("NoAdditionalSas")
      [] value = 36 -> Ok("InternalAddressFailure")
      [] value = 37 -> Ok("FailedCpRequired")
      [] value = 38 -> Ok("TsUnacceptable")
      [] value = 39 -> Ok("InvalidSelectors")
      [] value = 40 -> Ok("UnacceptableAddresses")
      [] value = 41 -> Ok("UnexpectedNatDetected")
      [] value = 42 -> Ok("UseAssignedHoA")
      [] value = 43 -> Ok("TemporaryFailure")
      [] value = 44 -> Ok("ChildSaNotFound")
      [] value = 45 -> Ok("InvalidGroupId")
      [] value = 46 -> Ok("AuthorizationFailed")
      [] value = 47 -> Ok("StateNotFound")
      [] value = 48 -> Ok("TsMaxQueue")
      [] value = 49 -> Ok("RegistrationFailed")
      [] value \in 50..8191 -> Err("Unassigned")
      [] value \in 8192..16383 -> Err("PrivateUse")
      [] value \in 16384..65535 -> Err("OutOfRange")

\* enum SecurityProtocol: the discriminants, `variant as u8`
SecurityProtocol ==
    [InternetKeyExchange |-> 1, AuthenticationHeader |-> 2,
     EncapsulatingSecurityPayload |-> 3,
     FcEncapsulatingSecurityPayloadHeader |-> 4, FcCtAuthentication |-> 5,
     GroupIKEUpdate |-> 6]

\* SecurityProtocol::try_from, from the ranges the enum documents
SecurityProtocol_try_from(value) ==
    CASE value = 0 -> Err("Reserved")
      [] value = 1 -> Ok("InternetKeyExchange")
      [] value = 2 -> Ok("AuthenticationHeader")
      [] value = 3 -> Ok("EncapsulatingSecurityPayload")
      [] value = 4 -> Ok("FcEncapsulatingSecurityPayloadHeader")
      [] value = 5 -> Ok("FcCtAuthentication")
      [] value = 6 -> Ok("GroupIKEUpdate")
      [] value \in 7..200 -> Err("Unassigned")
      [] value \in 201..255 -> Err("PrivateUse")

(***************************************************************************)
(* IKEv2: the generator.                                                   *)
(***************************************************************************)
\* Transform::Encryption(e, o) and the other variants of Transform
Encryption(e, o) == [kind |-> "Encryption", id |-> e, key_length |-> o]
PseudoRandomFunction(p) == [kind |-> "PseudoRandomFunction", id |-> p]
Integrity(i) == [kind |-> "Integrity", id |-> i]
KeyExchangeTransform(k) == [kind |-> "KeyExchange", id |-> k]
SequenceNumber(s) == [kind |-> "SequenceNumber", id |-> s]

\* Proposal { protocol, spi, ... }; an encryption algorithm is <<e, o>>
Proposal(protocol, spi, enc, prf, integ, ke, sn) ==
    [protocol |-> protocol, spi |-> spi, encryption_algorithms |-> enc,
     pseudo_random_functions |-> prf, integrity_algorithms |-> integ,
     key_exchange_methods |-> ke, sequence_numbers |-> sn]

\* Proposal::new_empty(protocol, Some(spi))
new_empty(protocol, spi) ==
    Proposal(protocol, spi, <<>>, <<>>, <<>>, <<>>, <<>>)

\* Proposal::len
Proposal_len(p) ==
    Len(p.encryption_algorithms) + Len(p.pseudo_random_functions)
    + Len(p.integrity_algorithms) + Len(p.key_exchange_methods)
    + Len(p.sequence_numbers)

\* Attribute::KeyLength(length).build()
Attribute_build(length) ==
    U16Bytes((AttributeType.KeyLength + FLAG_ATTRIBUTE_FORMAT) % U16Mod)
    \o U16Bytes(length)

\* Transform::build
Transform_build(t, last) ==
    LET t_type ==
            CASE t.kind = "Encryption" -> TransformType.EncryptionAlgorithm
              [] t.kind = "PseudoRandomFunction" ->
                     TransformType.PseudoRandomFunction
              [] t.kind = "Integrity" -> TransformType.IntegrityAlgorithm
              [] t.kind = "KeyExchange" -> TransformType.KeyExchangeMethod
              [] t.kind = "SequenceNumber" -> TransformType.SequenceNumber
        t_id ==
            CASE t.kind = "Encryption" -> EncryptionAlgorithm[t.id]
              [] t.kind = "PseudoRandomFunction" -> PseudorandomFunction[t.id]
              [] t.kind = "Integrity" -> IntegrityAlgorithm[t.id]
              [] t.kind = "KeyExchange" -> KeyExchangeMethod[t.id]
              [] t.kind = "SequenceNumber" -> SequenceNumberType[t.id]
        attributes ==
            IF t.kind = "Encryption" /\ t.key_length # None
            THEN Attribute_build(t.key_length[1])
            ELSE <<>>
        packet_length == (TransformHeaderSize + Len(attributes)) % U16Mod
    IN  <<IF last THEN 0 ELSE 3, 0>> \o U16Bytes(packet_length)
        \o <<t_type, 0>> \o U16Bytes(t_id) \o attributes

\* the rule of RFC 7296, section 3.3.3, as Proposal::try_build and
\* Proposal::try_parse test it on the five lists
MissingMandatoryTransform(p) ==
    CASE p.protocol = "InternetKeyExchange" ->
             \/ p.encryption_algorithms = <<>>
             \/ p.pseudo_random_functions = <<>>
             \/ p.key_exchange_methods = <<>>
      [] p.protocol = "AuthenticationHeader" ->
             p.encryption_algorithms = <<>> \/ p.sequence_numbers = <<>>
      [] p.protocol = "EncapsulatingSecurityPayload" ->
             p.integrity_algorithms = <<>> \/ p.sequence_numbers = <<>>
      [] OTHER -> FALSE

\* chain_iterator: the transforms of the five lists in the order of the chain
ChainIterator(p) ==
    [i \in DOMAIN p.encryption_algorithms |->
        Encryption(p.encryption_algorithms[i][1],
                   p.encryption_algorithms[i][2])]
    \o [i \in DOMAIN p.pseudo_random_functions |->
           PseudoRandomFunction(p.pseudo_random_functions[i])]
    \o [i \in DOMAIN p.integrity_algorithms |->
           Integrity(p.integrity_algorithms[i])]
    \o [i \in DOMAIN p.key_exchange_methods |->
           KeyExchangeTransform(p.key_exchange_methods[i])]
    \o [i \in DOMAIN p.sequence_numbers |->
           SequenceNumber(p.sequence_numbers[i])]

\* `transforms` once the first k transforms of the chain were appended
RECURSIVE ChainBytes(_, _, _)
ChainBytes(chain, len, k) ==
    IF k = 0 THEN <<>>
    ELSE ChainBytes(chain, len, k - 1)
         \o Transform_build(chain[k], k - 1 = len - 1)

\* `packet` of Proposal::try_build: the header, the SPI and the transforms
Proposal_packet(p, num, last) ==
    LET transforms == ChainBytes(ChainIterator(p), Proposal_len(p),
                                 Proposal_len(p))
        packet_length == (8 + (Len(p.spi) % U16Mod)
                          + (Len(transforms) % U16Mod)) % U16Mod
    IN  <<IF last THEN 0 ELSE 2, 0>> \o U16Bytes(packet_length)
        \o <<num, SecurityProtocol[p.protocol], Len(p.spi) % U8Mod,
             Proposal_len(p) % U8Mod>>
        \o p.spi \o transforms

\* Proposal::try_build
Proposal_try_build(p, num, last) ==
    IF MissingMandatoryTransform(p) THEN Err("MissingMandatoryTransform")
    ELSE Ok(Proposal_packet(p, num, last))

\* the bytes of the proposals lo..hi of a Security Association, or the first
\* error (the range is halved to keep the evaluation shallow)
RECURSIVE ProposalsBytes(_, _, _)
BothOk(l, r) ==
    IF l.tag # "Ok" THEN l
    ELSE IF r.tag # "Ok" THEN r
    ELSE Ok(l.val \o r.val)

ProposalsBytes(proposals, lo, hi) ==
    IF lo > hi THEN Ok(<<>>)
    ELSE IF lo = hi
    THEN Proposal_try_build(proposals[lo], lo % U8Mod, lo = Len(proposals))
    ELSE BothOk(
             ProposalsBytes(proposals, lo, (lo + hi) \div 2),
             ProposalsBytes(proposals, (lo + hi) \div 2 + 1, hi))

\* GenericPayloadHeader { next_payload, reserved: 0, payload_length }
GenericPayloadHeader(next_payload, payload_length) ==
    <<PayloadType[next_payload], 0>> \o U16Bytes(payload_length % U16Mod)

\* SecurityAssociation::try_build
SecurityAssociationOn(next_payload, proposals) ==
    IF proposals.tag # "Ok" THEN proposals
    ELSE Ok(GenericPayloadHeader(next_payload,
                                 GenericPayloadHeaderSize + Len(proposals.val))
            \o proposals.val)

SecurityAssociation_try_build(sa, next_payload) ==
    IF Len(sa.proposals) >= 255
    THEN Err("TooManyProposals")
    ELSE SecurityAssociationOn(
             next_payload,
             ProposalsBytes(sa.proposals, 1, Len(sa.proposals)))

\* Payload::build_generic
build_generic(next_payload, data) ==
    GenericPayloadHeader(next_payload, (Len(data) % U16Mod) + 4) \o data

\* KeyExchange::build
KeyExchange_build(v, next_payload) ==
    GenericPayloadHeader(next_payload, 8 + (Len(v.data) % U16Mod))
    \o U16Bytes(KeyExchangeMethod[v.dh_group]) \o U16Bytes(0) \o v.data

\* Notification::try_build
Notification_try_build(v, next_payload) ==
    IF v.spi # None /\ Len(v.spi[1]) > 255 THEN Err("MaxSpiLengthExceeded")
    ELSE LET spi_len == IF v.spi # None THEN Len(v.spi[1]) ELSE 0
         IN  Ok(GenericPayloadHeader(next_payload,
                                     8 + spi_len + (Len(v.data) % U16Mod))
                \o <<IF v.spi = None THEN 0 ELSE SecurityProtocol[v.protocol],
                     spi_len>>
                \o U16Bytes(NotifyErrorMessage[v.variant])
                \o (IF v.spi # None THEN v.spi[1] ELSE <<>>)
                \o v.data)

\* a Payload is its variant and the value the variant holds, a record; the
\* Vec<u8> of a nonce, a vendor id or an encrypted payload is its field data
Payload(kind, v) == [kind |-> kind, v |-> v]
Generic(kind, data) == Payload(kind, [data |-> data])

\* Payload::try_build
Payload_try_build(payload, next_payload) ==
    IF payload.kind = "Nonce"
       /\ (Len(payload.v.data) < 16 \/ Len(payload.v.data) > 256)
    THEN Err("InvalidNonceLength")
    ELSE CASE payload.kind = "SecurityAssociation" ->
                  SecurityAssociation_try_build(payload.v, next_payload)
           [] payload.kind = "KeyExchange" ->
                  Ok(KeyExchange_build(payload.v, next_payload))
           [] payload.kind = "Notify" ->
                  Notification_try_build(payload.v, next_payload)
           [] payload.kind \in {"Nonce", "VendorID",
                                "EncryptedAndAuthenticated"} ->
                  Ok(build_generic(next_payload, payload.v.data))

\* the bytes of the payloads lo..hi of a packet, or the first error
RECURSIVE PayloadsBytes(_, _, _)
PayloadsBytes(payloads, lo, hi) ==
    IF lo > hi THEN Ok(<<>>)
    ELSE IF lo = hi
    THEN Payload_try_build(payloads[lo],
                           IF lo < Len(payloads) THEN payloads[lo + 1].kind
                           ELSE "NoNextPayload")
    ELSE BothOk(
             PayloadsBytes(payloads, lo, (lo + hi) \div 2),
             PayloadsBytes(payloads, (lo + hi) \div 2 + 1, hi))

\* IKEv2 { initiator_cookie, ... }
IKEv2(ic, rc, exchange_type, initiator, response, message_id, payloads) ==
    [initiator_cookie |-> ic, responder_cookie |-> rc,
     exchange_type |-> exchange_type, initiator |-> initiator,
     response |-> response, message_id |-> message_id, payloads |-> payloads]

\* IKEv2::try_build
IKEv2On(p, payloads) ==
    IF payloads.tag # "Ok" THEN payloads
    ELSE Ok(U64Bytes(p.initiator_cookie) \o U64Bytes(p.responder_cookie)
            \o <<IF p.payloads = <<>> THEN PayloadType.NoNextPayload
                 ELSE PayloadType[p.payloads[1].kind],
                 IKE_2_VERSION_VALUE, ExchangeType[p.exchange_type],
                 (IF p.initiator THEN FLAG_INITIATOR ELSE 0)
                 + (IF p.response THEN FLAG_RESPONSE ELSE 0)>>
            \o U32Bytes(p.message_id)
            \o U32Bytes(HeaderSize + Len(payloads.val))
            \o payloads.val)

IKEv2_try_build(p) ==
    IF Len(p.payloads) >= 255 THEN Err("TooManyPayloads")
    ELSE IKEv2On(p, PayloadsBytes(p.payloads, 1, Len(p.payloads)))

(***************************************************************************)
(* IKEv2: the parser.  A buffer is a byte sequence of its own and offsets  *)
(* count from 0.  `?` on an UnparseableParameter keeps the class.          *)
(***************************************************************************)
\* zerocopy U64::get(): the cookies of the model are below 2^31, a larger
\* value stays the eight bytes it is read from
U64At(b, off) ==
    IF Bytes(b, off, off + 4) = <<0, 0, 0, 0>> THEN U32At(b, off + 4)
    ELSE Bytes(b, off, off + 8)

\* the attribute of an encryption transform, attribute_data = body[lo..hi)
KeyLengthOn(attribute_value, attr_type) ==
    IF attr_type.tag # "Ok" THEN attr_type
    ELSE IF attr_type.val = "KeyLength" THEN Ok(Some(attribute_value))
    ELSE Ok(None)

EncryptionAttribute(body, lo, hi) ==
    IF lo = hi THEN Ok(None)
    ELSE IF hi - lo < AttributeHeaderSize THEN Err("BufferTooSmall")
    ELSE IF U16At(body, lo) \div FLAG_ATTRIBUTE_FORMAT = 1
    THEN KeyLengthOn(U16At(body, lo + 2),
                     AttributeType_try_from(U16At(body, lo)
                                            - FLAG_ATTRIBUTE_FORMAT))
    ELSE Ok(None)

\* match_transform!() on the transform whose header is at body[offset..]:
\* the proposal with the transform pushed to the list of its type
PushEncryptionOn(p, e, attr) ==
    IF attr.tag # "Ok" THEN attr
    ELSE Ok([p EXCEPT !.encryption_algorithms = Append(@, <<e, attr.val>>)])

PushOn(p, field, id) ==
    IF id.tag # "Ok" THEN id
    ELSE IF field = "extra_key_exchange_methods" THEN Ok(p)
    ELSE Ok([p EXCEPT ![field] = Append(@, id.val)])

match_transformOn(p, body, offset, t_type, t_size, transform_id) ==
    CASE t_type = "EncryptionAlgorithm" ->
             IF EncryptionAlgorithm_try_from(transform_id).tag # "Ok"
             THEN EncryptionAlgorithm_try_from(transform_id)
             ELSE IF \/ t_size < TransformHeaderSize
                     \/ offset + t_size > Len(body)
             THEN Panic
             ELSE PushEncryptionOn(
                      p, EncryptionAlgorithm_try_from(transform_id).val,
                      EncryptionAttribute(body, offset + TransformHeaderSize,
                                          offset + t_size))
      [] t_type = "PseudoRandomFunction" ->
             PushOn(p, "pseudo_random_functions",
                    PseudorandomFunction_try_from(transform_id))
      [] t_type = "IntegrityAlgorithm" ->
             PushOn(p, "integrity_algorithms",
                    IntegrityAlgorithm_try_from(transform_id))
      [] t_type = "KeyExchangeMethod" ->
             PushOn(p, "key_exchange_methods",
                    KeyExchangeMethod_try_from(transform_id))
      [] t_type \in {"AdditionalKeyExchange1", "AdditionalKeyExchange2",
                     "AdditionalKeyExchange3", "AdditionalKeyExchange4",
                     "AdditionalKeyExchange5", "AdditionalKeyExchange6",
                     "AdditionalKeyExchange7"} ->
             PushOn(p, "extra_key_exchange_methods",
                    KeyExchangeMethod_try_from(transform_id))
      [] t_type = "SequenceNumber" ->
             PushOn(p, "sequence_numbers",
                    SequenceNumberType_try_from(transform_id))
      [] OTHER -> Panic \* unimplemented!()

match_transform(p, body, offset, t_type) ==
    IF t_type.tag # "Ok" THEN t_type
    ELSE match_transformOn(p, body, offset, t_type.val,
                           U16At(body, offset + 2), U16At(body, offset + 6))

\* the transforms of a proposal from body[offset..] on: the first transform,
\* then `while next_transform`, then the rule on the mandatory transforms
RECURSIVE TransformLoop(_, _, _)
TransformLoopOn(body, offset, r) ==
    IF r.tag # "Ok" THEN r
    ELSE IF U8At(body, offset) = FLAG_MORE_FOLLOWING_TRANSFORMS
    THEN IF U16At(body, offset + 2) = 0 THEN Hang
         ELSE TransformLoop(r.val, body, offset + U16At(body, offset + 2))
    ELSE IF MissingMandatoryTransform(r.val)
    THEN Err("MissingMandatoryTransform")
    ELSE r

TransformLoop(p, body, offset) ==
    IF offset > Len(body) THEN Panic
    ELSE IF Len(body) - offset < TransformHeaderSize
    THEN Err("BufferTooSmall")
    ELSE TransformLoopOn(
             body, offset,
             match_transform(p, body, offset,
                             TransformType_try_from(U8At(body, offset + 4))))

\* Proposal::try_parse(header, &buf[offset..]), the header at buf[offset..]
Proposal_try_parseOn(buf, offset, spi_len, body_len, protocol) ==
    IF body_len < 0 \/ offset + ProposalHeaderSize + spi_len > Len(buf)
    THEN Panic
    ELSE IF protocol.tag # "Ok" THEN protocol
    ELSE IF offset + ProposalHeaderSize + spi_len + body_len > Len(buf)
    THEN Err("BoundaryError")
    ELSE IF body_len = 0
    THEN Ok(new_empty(protocol.val,
                      Bytes(buf, offset + ProposalHeaderSize,
                            offset + ProposalHeaderSize + spi_len)))
    ELSE TransformLoop(
             new_empty(protocol.val,
                       Bytes(buf, offset + ProposalHeaderSize,
                             offset + ProposalHeaderSize + spi_len)),
             Bytes(buf, offset + ProposalHeaderSize + spi_len,
                   offset + ProposalHeaderSize + spi_len + body_len),
             0)

Proposal_try_parse(buf, offset) ==
    Proposal_try_parseOn(
        buf, offset, U8At(buf, offset + 6),
        U16At(buf, offset + 2) - ProposalHeaderSize - U8At(buf, offset + 6),
        SecurityProtocol_try_from(U8At(buf, offset + 5)))

\* one pass of SecurityAssociation::try_parse: the loop state is the offset
\* of the next proposal header, with the number of the proposal before it
\* (0 before the first) and whether `more_proposals` holds
ProposalStepOn(buf, st, proposal) ==
    IF proposal.tag # "Ok" THEN proposal
    ELSE More([offset |-> st.start.offset + U16At(buf, st.start.offset + 2),
               proposal_num |-> U8At(buf, st.start.offset + 4),
               more_proposals |->
                   U8At(buf, st.start.offset) = FLAG_MORE_FOLLOWING_PROPOSALS],
              Append(st.acc, proposal.val))

ProposalStep(buf, st) ==
    IF ~st.start.more_proposals THEN Ok([proposals |-> st.acc])
    ELSE IF st.start.offset > Len(buf) THEN Panic
    ELSE IF Len(buf) - st.start.offset < ProposalHeaderSize
    THEN Err("BufferTooSmall")
    ELSE IF st.start.proposal_num = 0
            /\ U8At(buf, st.start.offset + 4) # CONST_FIRST_PROPOSAL_NUMBER
    THEN Err("InvalidProposalNumberingStart")
    ELSE IF st.start.proposal_num # 0
            /\ U8At(buf, st.start.offset + 4) # 1 + st.start.proposal_num
    THEN Err("InvalidProposalNumbering")
    ELSE ProposalStepOn(buf, st, Proposal_try_parse(buf, st.start.offset))

RECURSIVE ProposalSteps(_, _, _)
ProposalStepsOn(buf, fuel, s1) ==
    IF s1.tag # "More" THEN s1 ELSE ProposalSteps(buf, s1, fuel)

ProposalSteps(buf, st, fuel) ==
    IF fuel <= 1 THEN ProposalStep(buf, st)
    ELSE ProposalStepsOn(buf, fuel - fuel \div 2,
                         ProposalSteps(buf, st, fuel \div 2))

RECURSIVE ProposalStepsLoop(_, _, _)
ProposalStepsLoopOn(buf, fuel, s1) ==
    IF s1.tag # "More" THEN s1 ELSE ProposalStepsLoop(buf, s1, 2 * fuel)

ProposalStepsLoop(buf, st, fuel) ==
    ProposalStepsLoopOn(buf, fuel, ProposalSteps(buf, st, fuel))

\* SecurityAssociation::try_parse
SecurityAssociation_try_parse(buf) ==
    IF buf = <<>> THEN Ok([proposals |-> <<>>])
    ELSE ProposalStepsLoop(
             buf,
             More([offset |-> 0, proposal_num |-> 0, more_proposals |-> TRUE],
                  <<>>),
             1)

\* try_parse_generic on &buf[offset..]
try_parse_genericOn(buf, offset, consumed, n) ==
    IF consumed < GenericPayloadHeaderSize \/ offset + consumed > Len(buf)
    THEN Panic
    ELSE IF n.tag # "Ok" THEN n
    ELSE Ok([v |-> Bytes(buf, offset + GenericPayloadHeaderSize,
                         offset + consumed),
             l |-> consumed, n |-> n.val])

try_parse_generic(buf, offset) ==
    IF Len(buf) - offset < GenericPayloadHeaderSize
    THEN Err("BufferTooSmall")
    ELSE try_parse_genericOn(buf, offset, U16At(buf, offset + 2),
                             PayloadType_try_from(U8At(buf, offset)))

\* one pass of the loop of IKEv2::try_parse: the loop state is the offset
\* and next_payload
SaOfOn(g, sa) ==
    IF sa.tag # "Ok" THEN sa
    ELSE Ok([v |-> sa.val, l |-> g.val.l, n |-> g.val.n])

SaOf(g) ==
    IF g.tag # "Ok" THEN g
    ELSE IF g.val.v = <<>> /\ g.val.l = GenericPayloadHeaderSize
    THEN Ok([v |-> [proposals |-> <<>>], l |-> g.val.l, n |-> g.val.n])
    ELSE SaOfOn(g, SecurityAssociation_try_parse(g.val.v))

PayloadStepOn(st, kind, g) ==
    IF g.tag # "Ok" THEN g
    ELSE More([offset |-> st.start.offset + g.val.l,
               next_payload |-> IF kind = "EncryptedAndAuthenticated"
                                THEN "NoNextPayload" ELSE g.val.n],
              Append(st.acc, IF kind = "SecurityAssociation"
                             THEN Payload(kind, g.val.v)
                             ELSE Generic(kind, g.val.v)))

PayloadStep(buf, st) ==
    CASE st.start.next_payload = "NoNextPayload" -> Ok(st.acc)
      [] st.start.next_payload = "SecurityAssociation" ->
             PayloadStepOn(st, "SecurityAssociation",
                           SaOf(try_parse_generic(buf, st.start.offset)))
      [] st.start.next_payload \in {"Nonce", "VendorID",
                                    "EncryptedAndAuthenticated"} ->
             PayloadStepOn(st, st.start.next_payload,
                           try_parse_generic(buf, st.start.offset))
      [] OTHER -> Hang \* `continue` with the same next_payload

RECURSIVE PayloadSteps(_, _, _)
PayloadStepsOn(buf, fuel, s1) ==
    IF s1.tag # "More" THEN s1 ELSE PayloadSteps(buf, s1, fuel)

PayloadSteps(buf, st, fuel) ==
    IF fuel <= 1 THEN PayloadStep(buf, st)
    ELSE PayloadStepsOn(buf, fuel - fuel \div 2,
                        PayloadSteps(buf, st, fuel \div 2))

RECURSIVE PayloadStepsLoop(_, _, _)
PayloadStepsLoopOn(buf, fuel, s1) ==
    IF s1.tag # "More" THEN s1 ELSE PayloadStepsLoop(buf, s1, 2 * fuel)

PayloadStepsLoop(buf, st, fuel) ==
    PayloadStepsLoopOn(buf, fuel, PayloadSteps(buf, st, fuel))

\* IKEv2::try_parse
IKEv2_try_parseOn(buf, payloads, exchange_type) ==
    IF payloads.tag # "Ok" THEN payloads
    ELSE IF exchange_type.tag # "Ok" THEN exchange_type
    ELSE Ok(IKEv2(U64At(buf, 0), U64At(buf, 8), exchange_type.val,
                  (U8At(buf, 19) \div FLAG_INITIATOR) % 2 = 1,
                  (U8At(buf, 19) \div FLAG_RESPONSE) % 2 = 1,
                  U32At(buf, 20), payloads.val))

IKEv2_try_parseFrom(buf, next_payload) ==
    IF next_payload.tag # "Ok" THEN next_payload
    ELSE IKEv2_try_parseOn(
             buf,
             PayloadStepsLoop(buf,
                              More([offset |-> HeaderSize,
                                    next_payload |-> next_payload.val],
                                   <<>>),
                              1),
             ExchangeType_try_from(U8At(buf, 18)))

IKEv2_try_parse(buf) ==
    IF Len(buf) < HeaderSize THEN Err("BufferTooSmall")
    ELSE IF U8At(buf, 17) # IKE_2_VERSION_VALUE THEN Err("WrongProtocol")
    ELSE IKEv2_try_parseFrom(buf, PayloadType_try_from(U8At(buf, 16)))

(***************************************************************************)
(* State.                                                                  *)
(***************************************************************************)
VARIABLES
    \* MessageBuilder and the round trip of its message
    batch,        \* MessageBuilder.transforms
    cpc,          \* "new" -> "built" -> "parsed" -> "decoded"
    msg,          \* the bytes returned by build
    cookie,       \* the initiator cookie returned by build
    packet,       \* the result of parse_packet(msg)
    decoded,      \* the result of payload_to_transforms on the first proposal
    \* a single payload parser on a buffer cut short
    tkind,        \* the payload type
    tdeclared,    \* the payload length the buffer declares
    tbuf,         \* the buffer handed to the parser
    tres,         \* the parser's result, NotRun before the call
    \* the bisection of a remainder on its own
    rem,          \* `other`, the remainder
    bpc,          \* "new" -> "split" -> "pushed"
    halves,       \* <<a, b>>
    queue,        \* the todo queue the halves are pushed to
    \* scan
    transform_no, \* ScanOptions.transform_no
    accepted,     \* the set S the responder accepts
    faults,       \* how many failures the socket and the wire had so far
    pc,           \* where the driver is
    todo,         \* VecDeque<Vec<Transform>>
    open,         \* HashMap<u64, Vec<Transform>>
    found,        \* Vec<Transform>
    do_sleep,
    cur,          \* the batch popped before the sleep, with its cookie
    net,          \* the probes the responder has not answered, oldest first
    chan,         \* the unbounded channel from the receive task
    rtask,        \* the receive task: "running" or "exited"
    sent,         \* the batches of the probes socket.send transmitted
    result,       \* Ok(valid_transforms), NotRun before the return
    \* IKEv2: a value and its way through the generator and the parser
    kpc,          \* "new" -> "built" -> "parsed"
    subject,      \* the Security Association, packet or integer
    built,        \* the result of try_build, NotRun before the call
    parsed,       \* the result of try_parse or try_from
    \* handle_receive of recv.rs
    hpc,          \* "recv" at s.recv, then "returned", "panic" or "hang"
    wire,         \* the datagrams the socket still delivers, oldest first
    hmap,         \* m: the map behind the Mutex
    hpacket,      \* the result of parse_packet on the last datagram
    hret          \* the value handle_receive returned, NotRun before

codecVars == <<batch, cpc, msg, cookie, packet, decoded>>
truncVars == <<tkind, tdeclared, tbuf, tres>>
bisectVars == <<rem, bpc, halves, queue>>
scanVars == <<transform_no, accepted, faults, pc, todo, open, found, do_sleep,
              cur, net, chan, rtask, sent, result>>
ikev2Vars == <<kpc, subject, built, parsed>>
recvVars == <<hpc, wire, hmap, hpacket, hret>>
vars == <<codecVars, truncVars, bisectVars, scanVars, ikev2Vars, recvVars>>

NotRun == [tag |-> "NotRun"]
EmptyMap == [k \in {} |-> <<>>]
NoBatch == [transforms |-> <<>>, initiator_cookie |-> 0]

CodecIdle ==
    /\ batch = <<>> /\ cpc = "idle" /\ msg = <<>> /\ cookie = <<>>
    /\ packet = NotRun /\ decoded = NotRun
TruncIdle ==
    /\ tkind = PT_None /\ tdeclared = 0 /\ tbuf = <<>> /\ tres = NotRun
BisectIdle ==
    /\ rem = <<>> /\ bpc = "idle" /\ halves = <<<<>>, <<>>>> /\ queue = <<>>
Ikev2Idle ==
    /\ kpc = "idle" /\ subject = NotRun /\ built = NotRun
    /\ parsed = NotRun
RecvIdle ==
    /\ hpc = "idle" /\ wire = <<>> /\ hmap = EmptyMap /\ hpacket = NotRun
    /\ hret = NotRun
ScanIdle ==
    /\ transform_no = 1 /\ accepted = {} /\ faults = 0 /\ pc = "idle"
    /\ todo = <<>> /\ open = EmptyMap /\ found = <<>> /\ do_sleep = FALSE
    /\ cur = NoBatch /\ net = <<>> /\ chan = <<>> /\ rtask = "exited"
    /\ sent = <<>> /\ result = NotRun

(***************************************************************************)
(* The generator and the parser on generated messages.                     *)
(***************************************************************************)
\* transforms the batches are made of: with and without a key length
SampleSeq ==
    <<Transform(5, 2, 1, 2, None), Transform(7, 2, 1, 2, Some(128)),
      Transform(7, 1, 1, 2, Some(256)), Transform(1, 1, 1, 2, None)>>
SampleTransforms == Range(SampleSeq)

\* the sample transforms in their order, repeated to the length n
Pattern(n) == [i \in 1..n |-> SampleSeq[((i - 1) % Len(SampleSeq)) + 1]]

\* batch sizes of the generator's length test, and the sizes around the
\* width of the one-byte counters
LongBatchSizes == {20, 100, 255, 256, 500}

SeqsUpTo(S, n) == UNION {[1..k -> S] : k \in 0..n}

Batches == SeqsUpTo(SampleTransforms, MaxBatchLen)
               \cup {Pattern(n) : n \in LongBatchSizes}

\* rand::random::<u64>()
CookieSamples == {1, 2000000000}

InitCodec ==
    /\ batch \in Batches
    /\ cpc = "new" /\ msg = <<>> /\ cookie = <<>>
    /\ packet = NotRun /\ decoded = NotRun
    /\ TruncIdle /\ BisectIdle /\ ScanIdle /\ Ikev2Idle /\ RecvIdle

\* MessageBuilder::build
BuildMessage ==
    /\ cpc = "new"
    /\ \E c \in CookieSamples :
          /\ msg' = Build(batch, c)
          /\ cookie' = U64Bytes(c)
    /\ cpc' = "built"
    /\ UNCHANGED <<batch, packet, decoded, truncVars, bisectVars, scanVars,
                   ikev2Vars, recvVars>>

\* parse_packet on the built message
ParseMessage ==
    /\ cpc = "built"
    /\ packet' = parse_packet(msg)
    /\ cpc' = "parsed"
    /\ UNCHANGED <<batch, msg, cookie, decoded, truncVars, bisectVars,
                   scanVars, ikev2Vars, recvVars>>

\* payload_to_transforms on the first proposal of the first SA payload
HasProposal(p) ==
    /\ p.tag = "Ok"
    /\ Len(p.val.security_associations) >= 1
    /\ Len(p.val.security_associations[1].proposal_payload) >= 1

DecodeProposal ==
    /\ cpc = "parsed"
    /\ HasProposal(packet)
    /\ decoded' = payload_to_transforms(
                      packet.val.security_associations[1].proposal_payload[1])
    /\ cpc' = "decoded"
    /\ UNCHANGED <<batch, msg, cookie, packet, truncVars, bisectVars,
                   scanVars, ikev2Vars, recvVars>>

NextCodec == BuildMessage \/ ParseMessage \/ DecodeProposal

SpecCodec == InitCodec /\ [][NextCodec]_vars

(***************************************************************************)
(* The payload parsers on buffers cut short.                               *)
(***************************************************************************)
\* a vendor ID payload and a notification payload with four bytes of data
SampleVendorId ==
    <<PT_None, 0>> \o U16Bytes(StaticVendorIDSize + 4) \o <<1, 2, 3, 4>>
SampleNotification ==
    <<PT_None, 0>> \o U16Bytes(StaticNotificationSize + 4) \o U32Bytes(1)
    \o <<1, 0>> \o U16Bytes(NMT_NoProposalChosen) \o <<9, 9, 9, 9>>

\* the payloads MessageBuilder::build generates for a batch
TruncBatches == SeqsUpTo(SampleTransforms, MaxTruncBatch) \ {<<>>}
BuiltSa(b) == SubSeq(Build(b, 1), HeaderSize + 1, Len(Build(b, 1)))
BuiltProposal(b) ==
    SubSeq(Build(b, 1), HeaderSize + StaticSaSize + 4 + 1, Len(Build(b, 1)))

WellFormed(kind) ==
    CASE kind = PT_SecurityAssociation -> {BuiltSa(b) : b \in TruncBatches}
      [] kind = PT_Proposal -> {BuiltProposal(b) : b \in TruncBatches}
      [] kind = PT_Transform ->
             {TransformPayloadBytes(0, 1, t) : t \in SampleTransforms}
      [] kind = PT_VendorID -> {SampleVendorId}
      [] kind = PT_Notification -> {SampleNotification}

PayloadKinds ==
    {PT_SecurityAssociation, PT_Proposal, PT_Transform, PT_VendorID,
     PT_Notification}

\* every prefix of a well-formed payload, the whole payload included
InitTruncate ==
    /\ tkind \in PayloadKinds
    /\ \E full \in WellFormed(tkind) :
          /\ tdeclared = U16At(full, 2)
          /\ \E k \in 0..Len(full) : tbuf = SubSeq(full, 1, k)
    /\ tres = NotRun
    /\ CodecIdle /\ BisectIdle /\ ScanIdle /\ Ikev2Idle /\ RecvIdle

ParseSa ==
    /\ tkind = PT_SecurityAssociation /\ tres = NotRun
    /\ tres' = parse_security_association(tbuf, 0, Len(tbuf))
    /\ UNCHANGED <<tkind, tdeclared, tbuf, codecVars, bisectVars, scanVars,
                   ikev2Vars, recvVars>>

ParseProposal ==
    /\ tkind = PT_Proposal /\ tres = NotRun
    /\ tres' = parse_proposal(tbuf, 0, Len(tbuf))
    /\ UNCHANGED <<tkind, tdeclared, tbuf, codecVars, bisectVars, scanVars,
                   ikev2Vars, recvVars>>

ParseTransform ==
    /\ tkind = PT_Transform /\ tres = NotRun
    /\ tres' = parse_transform(tbuf, 0, Len(tbuf))
    /\ UNCHANGED <<tkind, tdeclared, tbuf, codecVars, bisectVars, scanVars,
                   ikev2Vars, recvVars>>

ParseVendorId ==
    /\ tkind = PT_VendorID /\ tres = NotRun
    /\ tres' = parse_vendor_id(tbuf, 0, Len(tbuf))
    /\ UNCHANGED <<tkind, tdeclared, tbuf, codecVars, bisectVars, scanVars,
                   ikev2Vars, recvVars>>

ParseNotification ==
    /\ tkind = PT_Notification /\ tres = NotRun
    /\ tres' = parse_notification(tbuf, 0, Len(tbuf))
    /\ UNCHANGED <<tkind, tdeclared, tbuf, codecVars, bisectVars, scanVars,
                   ikev2Vars, recvVars>>

NextTruncate ==
    ParseSa \/ ParseProposal \/ ParseTransform \/ ParseVendorId
    \/ ParseNotification

SpecTruncate == InitTruncate /\ [][NextTruncate]_vars

(***************************************************************************)
(* The bisection of a remainder.                                           *)
(***************************************************************************)
InitBisect ==
    /\ rem \in SeqsUpTo(SampleTransforms, MaxRem)
    /\ bpc = "new"
    /\ halves = <<<<>>, <<>>>>
    /\ queue = <<>>
    /\ CodecIdle /\ TruncIdle /\ ScanIdle /\ Ikev2Idle /\ RecvIdle

\* the loop `for x in other`
SplitRemainder ==
    /\ bpc = "new"
    /\ halves' = Bisect(rem)
    /\ bpc' = "split"
    /\ UNCHANGED <<rem, queue, codecVars, truncVars, scanVars, ikev2Vars,
                   recvVars>>

\* create new todos
PushHalves ==
    /\ bpc = "split"
    /\ queue' = EnqueueHalves(queue, halves)
    /\ bpc' = "pushed"
    /\ UNCHANGED <<rem, halves, codecVars, truncVars, scanVars, ikev2Vars,
                   recvVars>>

NextBisect == SplitRemainder \/ PushHalves

SpecBisect == InitBisect /\ [][NextBisect]_vars

(***************************************************************************)
(* scan: the driver loop, the responder and the receive task.              *)
(***************************************************************************)
Candidates == Range(V1Transforms)

Terminal == {"done_ok", "err_receive", "err_send"}

\* rand::random::<u64>() of the n-th build: the cookies of one scan are
\* taken to be pairwise different
NextCookie == Len(sent) + 1

\* socket.send(&msg).await: TRUE when it returns Ok
SendOutcomes == IF faults < MaxFaults THEN BOOLEAN ELSE {TRUE}

\* the responder's view of a probe: the transforms of its first proposal
ProbeTransformsOn(p) ==
    IF HasProposal(p)
    THEN payload_to_transforms(
             p.val.security_associations[1].proposal_payload[1])
    ELSE Err("InvalidTransform")
ProbeTransforms(probe) == ProbeTransformsOn(parse_packet(probe))

\* the responder's SA reply: the initiator cookie of the probe and one
\* proposal with the transform x
SaReply(probe, x) ==
    Bytes(probe, 0, 8) \o SubSeq(Build(<<x>>, 0), 9, Len(Build(<<x>>, 0)))

\* the responder's NO_PROPOSAL_CHOSEN reply: an informational exchange with
\* one notification payload
NoProposalChosenReply(probe) ==
    Bytes(probe, 0, 8) \o U64Bytes(0)
    \o <<PT_Notification, 16, ET_Informational, 0>>
    \o U32Bytes(0) \o U32Bytes(HeaderSize + StaticNotificationSize)
    \o <<PT_None, 0>> \o U16Bytes(StaticNotificationSize) \o U32Bytes(1)
    \o <<1, 0>> \o U16Bytes(NMT_NoProposalChosen)

\* the replies the responder may give to a probe whose transforms are b
RepliesOn(probe, b) ==
    IF b.tag = "Ok" /\ accepted \cap Range(b.val) # {}
    THEN {SaReply(probe, x) : x \in accepted \cap Range(b.val)}
    ELSE {NoProposalChosenReply(probe)}
Replies(probe) == RepliesOn(probe, ProbeTransforms(probe))

\* a datagram that is no ISAKMP message: the exchange type is unknown
GarbageDatagram == [i \in 1..HeaderSize |-> IF i = 19 THEN 99 ELSE 0]

\* the receive task on one datagram: what it sends on the channel
ForwardOn(r) ==
    IF r.tag = "Ok" THEN Ok(r.val) ELSE Err("InvalidMessage")
Forward(datagram) == ForwardOn(parse_packet(datagram))

Init ==
    /\ transform_no \in 1..MaxTransformNo
    /\ accepted \in {S \in SUBSET Candidates : Cardinality(S) <= MaxAccepted}
    /\ faults = 0
    /\ pc = "start"
    /\ todo = <<>> /\ open = EmptyMap /\ found = <<>> /\ do_sleep = FALSE
    /\ cur = NoBatch /\ net = <<>> /\ chan = <<>> /\ rtask = "running"
    /\ sent = <<>> /\ result = NotRun
    /\ CodecIdle /\ TruncIdle /\ BisectIdle /\ Ikev2Idle /\ RecvIdle

\* let mut todo = gen_v1_transforms(opts.transform_no)
Start ==
    /\ pc = "start"
    /\ todo' = gen_v1_transforms(transform_no)
    /\ pc' = "select"
    /\ UNCHANGED <<transform_no, accepted, faults, open, found, do_sleep, cur,
                   net, chan, rtask, sent, result>>
    /\ UNCHANGED <<codecVars, truncVars, bisectVars, ikev2Vars, recvVars>>

\* open.insert(initiator_cookie, transforms); socket.send(&msg).await?
SendProbe(transforms, c, delivered) ==
    /\ open' = MapInsert(open, U64Bytes(c), transforms)
    /\ IF delivered
       THEN /\ net' = Append(net, Build(transforms, c))
            /\ sent' = Append(sent, transforms)
            /\ pc' = "select"
       ELSE /\ pc' = "err_send"
            /\ UNCHANGED <<net, sent>>
    /\ faults' = IF delivered THEN faults ELSE faults + 1

\* the tick branch, todo.pop_front() is None: on to the second tick
TickNone ==
    /\ pc = "select"
    /\ todo = <<>>
    /\ pc' = "second_tick"
    /\ UNCHANGED <<transform_no, accepted, faults, todo, open, found,
                   do_sleep, cur, net, chan, rtask, sent, result>>
    /\ UNCHANGED <<codecVars, truncVars, bisectVars, ikev2Vars, recvVars>>

\* the tick branch, todo.pop_front() is Some(transforms): build, then sleep
\* if do_sleep is set, else insert and send
TickSome ==
    /\ pc = "select"
    /\ todo # <<>>
    /\ todo' = Tail(todo)
    /\ IF do_sleep
       THEN /\ cur' = [transforms |-> Head(todo),
                       initiator_cookie |-> NextCookie]
            /\ pc' = "sleep"
            /\ UNCHANGED <<open, net, sent, faults>>
       ELSE /\ \E delivered \in SendOutcomes :
                  SendProbe(Head(todo), NextCookie, delivered)
            /\ UNCHANGED cur
    /\ UNCHANGED <<transform_no, accepted, found, do_sleep, chan, rtask,
                   result>>
    /\ UNCHANGED <<codecVars, truncVars, bisectVars, ikev2Vars, recvVars>>

\* the end of sleep(opts.sleep_on_transform_found): insert and send
Wake ==
    /\ pc = "sleep"
    /\ do_sleep' = FALSE
    /\ \E delivered \in SendOutcomes :
          SendProbe(cur.transforms, cur.initiator_cookie, delivered)
    /\ cur' = NoBatch
    /\ UNCHANGED <<transform_no, accepted, todo, found, chan, rtask, result>>
    /\ UNCHANGED <<codecVars, truncVars, bisectVars, ikev2Vars, recvVars>>

\* the end of the second interval.tick().await: the return path
SecondTick ==
    /\ pc = "second_tick"
    /\ IF NothingMoreTodo(todo)
       THEN /\ result' = Ok(Dedup(Sort(found)))
            /\ pc' = "done_ok"
       ELSE /\ pc' = "select"
            /\ UNCHANGED result
    /\ UNCHANGED <<transform_no, accepted, faults, todo, open, found,
                   do_sleep, cur, net, chan, rtask, sent>>
    /\ UNCHANGED <<codecVars, truncVars, bisectVars, ikev2Vars, recvVars>>

\* the receive branch on Some(Ok(msg))
RecvMessageOn(st) ==
    /\ todo' = st.todo
    /\ found' = st.found
    /\ do_sleep' = st.do_sleep
    /\ open' = st.open

RecvMessage ==
    /\ pc = "select"
    /\ chan # <<>>
    /\ Head(chan).tag = "Ok"
    /\ chan' = Tail(chan)
    /\ RecvMessageOn(OnMessage([todo |-> todo, found |-> found,
                                do_sleep |-> do_sleep, open |-> open],
                               Head(chan).val))
    /\ UNCHANGED <<transform_no, accepted, faults, pc, cur, net, rtask, sent,
                   result>>
    /\ UNCHANGED <<codecVars, truncVars, bisectVars, ikev2Vars, recvVars>>

\* the receive branch on Some(Err(err))
RecvError ==
    /\ pc = "select"
    /\ chan # <<>>
    /\ Head(chan).tag = "Err"
    /\ chan' = Tail(chan)
    /\ pc' = OnReceiveError(Head(chan).err)
    /\ UNCHANGED <<transform_no, accepted, faults, todo, open, found,
                   do_sleep, cur, net, rtask, sent, result>>
    /\ UNCHANGED <<codecVars, truncVars, bisectVars, ikev2Vars, recvVars>>

\* the responder answers the oldest probe and the receive task forwards the
\* reply (the channel is closed once the driver returned)
Respond ==
    /\ pc \notin Terminal
    /\ rtask = "running"
    /\ net # <<>>
    /\ net' = Tail(net)
    /\ \E reply \in Replies(Head(net)) : chan' = Append(chan, Forward(reply))
    /\ UNCHANGED <<transform_no, accepted, faults, pc, todo, open, found,
                   do_sleep, cur, rtask, sent, result>>
    /\ UNCHANGED <<codecVars, truncVars, bisectVars, ikev2Vars, recvVars>>

\* s.recv fails: the receive task forwards the error once and exits
ReceiveIoError ==
    /\ faults < MaxFaults
    /\ pc \notin Terminal \cup {"start"}
    /\ rtask = "running"
    /\ chan' = Append(chan, Err("Io"))
    /\ rtask' = "exited"
    /\ faults' = faults + 1
    /\ UNCHANGED <<transform_no, accepted, pc, todo, open, found, do_sleep,
                   cur, net, sent, result>>
    /\ UNCHANGED <<codecVars, truncVars, bisectVars, ikev2Vars, recvVars>>

\* a datagram that does not parse arrives: the receive task forwards the
\* parse error and goes on
ReceiveGarbage ==
    /\ faults < MaxFaults
    /\ pc \notin Terminal \cup {"start"}
    /\ rtask = "running"
    /\ chan' = Append(chan, Forward(GarbageDatagram))
    /\ faults' = faults + 1
    /\ UNCHANGED <<transform_no, accepted, pc, todo, open, found, do_sleep,
                   cur, net, rtask, sent, result>>
    /\ UNCHANGED <<codecVars, truncVars, bisectVars, ikev2Vars, recvVars>>

Next ==
    \/ Start \/ TickNone \/ TickSome \/ Wake \/ SecondTick
    \/ RecvMessage \/ RecvError
    \/ Respond \/ ReceiveIoError \/ ReceiveGarbage

Spec == Init /\ [][Next]_vars

\* The scan with nothing accepted, or with the first candidate alone (so
\* that the sleep occurs too).  select! polls the interval among its ready
\* branches and the timers of tokio fire: no step of the tick branch stays
\* enabled for ever.
InitFair == Init /\ accepted \subseteq {V1Transforms[1]}

FairSpec ==
    /\ InitFair /\ [][Next]_vars
    /\ WF_vars(Start) /\ WF_vars(TickNone) /\ WF_vars(TickSome)
    /\ WF_vars(Wake) /\ WF_vars(SecondTick)

(***************************************************************************)
(* The receive branch on responses of any responder: the driver after its  *)
(* first probe, with one response in the channel.                          *)
(***************************************************************************)
\* the cookie of the first probe, and a cookie no probe carried
ResponseCookies == {1, 7}

\* a candidate outside the first batch
Outsider == V1Transforms[Len(V1Transforms)]

\* the transforms a response may name: members of the batch and an outsider
ReplyTransforms(b) ==
    {b[i] : i \in 1..(IF Len(b) < 3 THEN Len(b) ELSE 3)} \cup {Outsider}

\* the packets the receive task forwards for an SA reply and for a
\* NO_PROPOSAL_CHOSEN reply to a probe with the cookie c
PositiveResponse(c, x) == Forward(SaReply(U64Bytes(c), x)).val
NegativeResponse(c) == Forward(NoProposalChosenReply(U64Bytes(c))).val

\* a response with the proposals, or with the SA payloads, of two responses
WithProposals(m, other) ==
    [m EXCEPT !.security_associations[1].proposal_payload =
                 @ \o other.security_associations[1].proposal_payload]
WithSas(m, other) ==
    [m EXCEPT !.security_associations = @ \o other.security_associations]

Responses(b) ==
    UNION {
        {NegativeResponse(c)}
        \cup {PositiveResponse(c, x) : x \in ReplyTransforms(b)}
        \cup UNION {
               {WithProposals(PositiveResponse(c, x), PositiveResponse(c, y)),
                WithSas(PositiveResponse(c, x), PositiveResponse(c, y))} :
               x \in ReplyTransforms(b), y \in ReplyTransforms(b)}
        : c \in ResponseCookies}

FirstBatch(n) == Head(gen_v1_transforms(n))

InitResponse ==
    /\ transform_no \in 1..MaxTransformNo
    /\ accepted = {}
    /\ faults = 0
    /\ pc = "select"
    /\ todo = Tail(gen_v1_transforms(transform_no))
    /\ open = MapInsert(EmptyMap, U64Bytes(1), FirstBatch(transform_no))
    /\ found = <<>> /\ do_sleep = FALSE /\ cur = NoBatch
    /\ net = <<>>
    /\ \E m \in Responses(FirstBatch(transform_no)) : chan = <<Ok(m)>>
    /\ rtask = "running"
    /\ sent = <<FirstBatch(transform_no)>>
    /\ result = NotRun
    /\ CodecIdle /\ TruncIdle /\ BisectIdle /\ Ikev2Idle /\ RecvIdle

NextResponse == RecvMessage \/ TickSome \/ Wake

SpecResponse == InitResponse /\ [][NextResponse]_vars

(***************************************************************************)
(* scan against a responder of any behaviour: the first probes are         *)
(* answered with any response the receive task can forward.                *)
(***************************************************************************)
\* a response whose first proposal payload_to_transforms rejects: the
\* encryption algorithm of its transform is missing
Undecodable(m) ==
    [m EXCEPT !.security_associations[1].proposal_payload[1].transforms[1]
                  .sa_attributes = Tail(@)]

\* responses without SA payload and without NO_PROPOSAL_CHOSEN: no payload
\* at all, and a notification of another type
EmptyResponse(c) == [NegativeResponse(c) EXCEPT !.notification_payloads = <<>>]
OtherNotification(c) ==
    [NegativeResponse(c) EXCEPT
        !.notification_payloads[1].notify_message_type = 1]

\* the SA responses with the cookie c to a probe of the batch b: one
\* proposal or two, each decodable or not
SaResponses(c, b) ==
    UNION {
        {PositiveResponse(c, x), Undecodable(PositiveResponse(c, x))}
        \cup UNION {
               {WithProposals(PositiveResponse(c, x), PositiveResponse(c, y)),
                WithProposals(Undecodable(PositiveResponse(c, x)),
                              PositiveResponse(c, y)),
                WithProposals(PositiveResponse(c, x),
                              Undecodable(PositiveResponse(c, y)))} :
               y \in ReplyTransforms(b)}
        : x \in ReplyTransforms(b)}

\* every response to a probe with the cookie c: with that cookie or with a
\* cookie no probe carried
AnyResponses(c, b) ==
    UNION {
        {NegativeResponse(k), EmptyResponse(k), OtherNotification(k)}
        \cup SaResponses(k, b)
        : k \in {c, 7}}

\* the initiator cookie of a probe (the cookies of a scan are small)
ProbeCookie(probe) == U8At(probe, 7)

InitAny == Init /\ accepted = {}

\* the responder takes the oldest probe: one of the first MaxAnswered
\* probes is answered with any response, which the receive task forwards;
\* a later probe is dropped
RespondAny ==
    /\ pc \notin Terminal
    /\ rtask = "running"
    /\ net # <<>>
    /\ net' = Tail(net)
    /\ IF ProbeCookie(Head(net)) <= MaxAnswered
       THEN \E m \in AnyResponses(ProbeCookie(Head(net)),
                                  sent[ProbeCookie(Head(net))]) :
                chan' = Append(chan, Ok(m))
       ELSE UNCHANGED chan
    /\ UNCHANGED <<transform_no, accepted, faults, pc, todo, open, found,
                   do_sleep, cur, rtask, sent, result>>
    /\ UNCHANGED <<codecVars, truncVars, bisectVars, ikev2Vars, recvVars>>

NextAny ==
    \/ Start \/ TickNone \/ TickSome \/ Wake \/ SecondTick
    \/ RecvMessage \/ RecvError
    \/ RespondAny \/ ReceiveIoError \/ ReceiveGarbage

SpecAny == InitAny /\ [][NextAny]_vars

(***************************************************************************)
(* handle_receive of recv.rs: the loop that reads datagrams from the       *)
(* socket, on the datagrams a responder or anyone else may send.           *)
(***************************************************************************)
\* a proposal payload with the number no and the one transform x, as a
\* responder writes it into an SA payload that holds several proposals
ProposalOnWire(next_payload, no, x) ==
    <<next_payload, 0>>
    \o U16Bytes(StaticProposalSize + Len(TransformsRaw(<<x>>, 1, 1)))
    \o <<no, 1, 0, 1>> \o TransformsRaw(<<x>>, 1, 1)

\* an SA reply whose SA payload holds two proposals, with x and with y
TwoProposalReplyOn(c, body) ==
    U64Bytes(c) \o U64Bytes(0)
    \o <<PT_SecurityAssociation, 16, ET_IdentityProtection, 0>>
    \o U32Bytes(0) \o U32Bytes(HeaderSize + StaticSaSize + 4 + Len(body))
    \o <<PT_None, 0>> \o U16Bytes(StaticSaSize + 4 + Len(body))
    \o U32Bytes(1) \o <<0, 0, 0, 1>> \o body

TwoProposalReply(c, x, y) ==
    TwoProposalReplyOn(c, ProposalOnWire(PT_Proposal, 1, x)
                          \o ProposalOnWire(PT_None, 2, y))

\* an informational message whose notification payload declares the length
\* 0 and names Notification as the next payload
ZeroLengthNotification(c) ==
    U64Bytes(c) \o U64Bytes(0)
    \o <<PT_Notification, 16, ET_Informational, 0>>
    \o U32Bytes(0) \o U32Bytes(HeaderSize + StaticNotificationSize)
    \o <<PT_Notification, 0>> \o U16Bytes(0) \o U32Bytes(1)
    \o <<1, 0>> \o U16Bytes(NMT_NoProposalChosen)

\* an SA reply in a Base exchange
BaseReply(c, x) == [SaReply(U64Bytes(c), x) EXCEPT ![19] = ET_Base]

\* a datagram shorter than an ISAKMP header
ShortDatagram == <<0, 0, 0, 0>>

Datagrams ==
    {SaReply(U64Bytes(1), V1Transforms[1]),
     NoProposalChosenReply(U64Bytes(1)),
     NoProposalChosenReply(U64Bytes(7)),
     TwoProposalReply(1, V1Transforms[1], V1Transforms[2]),
     ZeroLengthNotification(1),
     BaseReply(1, V1Transforms[1]),
     GarbageDatagram,
     ShortDatagram}

\* the io::Error of s.recv, as the string handle_receive returns
IoError == Err("io")

\* m.lock().unwrap().remove(&cookie) for every NoProposalChosen notification
\* of a packet without an SA payload
HasNoProposalChosen(p) ==
    \E i \in DOMAIN p.notification_payloads :
        p.notification_payloads[i].notify_message_type = NMT_NoProposalChosen

MapAfter(map, p) ==
    IF p.security_associations # <<>> THEN map
    ELSE IF HasNoProposalChosen(p)
    THEN MapRemove(map, p.header.initiator_cookie)
    ELSE map

\* the pass of the loop after s.recv returned a datagram, r its parse
\* result: <<hpc', hmap', hret'>>
LoopPass(map, r) ==
    CASE r.tag = "Panic" -> <<"panic", map, NotRun>>
      [] r.tag = "Hang" -> <<"hang", map, NotRun>>
      [] r.tag = "Err" -> <<"returned", map, Err(r.err)>>
      [] r.tag = "Ok" ->
             IF r.val.header.exchange_mode = ET_Base
             THEN <<"returned", MapAfter(map, r.val), Ok(<<>>)>>
             ELSE <<"recv", MapAfter(map, r.val), NotRun>>

InitReceive ==
    /\ hpc = "recv"
    /\ wire \in SeqsUpTo(Datagrams, MaxDatagrams)
    /\ hmap = MapInsert(EmptyMap, U64Bytes(1), <<V1Transforms[1]>>)
    /\ hpacket = NotRun /\ hret = NotRun
    /\ CodecIdle /\ TruncIdle /\ BisectIdle /\ ScanIdle /\ Ikev2Idle

\* s.recv returns the next datagram and the loop body runs on it
ReceiveDatagramOn(r, after) ==
    /\ hpacket' = r
    /\ hpc' = after[1] /\ hmap' = after[2] /\ hret' = after[3]

ReceiveDatagram ==
    /\ hpc = "recv" /\ wire # <<>>
    /\ wire' = Tail(wire)
    /\ ReceiveDatagramOn(parse_packet(Head(wire)),
                         LoopPass(hmap, parse_packet(Head(wire))))
    /\ UNCHANGED <<codecVars, truncVars, bisectVars, scanVars, ikev2Vars>>

\* s.recv returns an error
ReceiveFails ==
    /\ hpc = "recv"
    /\ hpc' = "returned" /\ hret' = IoError
    /\ UNCHANGED <<wire, hmap, hpacket>>
    /\ UNCHANGED <<codecVars, truncVars, bisectVars, scanVars, ikev2Vars>>

NextReceive == ReceiveDatagram \/ ReceiveFails

SpecReceive == InitReceive /\ [][NextReceive]_vars

(***************************************************************************)
(* IKEv2: a Security Association or a packet is built and the bytes are    *)
(* parsed back; an integer is converted to a variant of an identifier      *)
(* space.                                                                  *)
(***************************************************************************)
FullIke ==
    Proposal("InternetKeyExchange", <<>>, <<<<"AesCbc", Some(256)>>>>,
             <<"HmacSha2_256">>, <<>>, <<"Curve25519">>, <<>>)
MixedIke ==
    Proposal("InternetKeyExchange", <<9>>,
             <<<<"TripleDes", None>>, <<"AesGcm16", Some(128)>>>>,
             <<"HmacSha1">>, <<"HmacSha2_256_128">>, <<"ModP2048">>, <<>>)
Esp ==
    Proposal("EncapsulatingSecurityPayload", <<1, 2, 3, 4>>, <<>>, <<>>,
             <<"HmacSha1_96">>, <<>>, <<"Sequential32bit">>)
EmptyIke == new_empty("InternetKeyExchange", <<1>>)
EmptyGroup == new_empty("GroupIKEUpdate", <<2>>)
SampleProposals == {FullIke, MixedIke, Esp, EmptyIke, EmptyGroup}

\* Proposal::new_empty(protocol, Some(vec![i + 1])) for i in 0..n
ManyEmpty(protocol, n) == [i \in 1..n |-> new_empty(protocol, <<i>>)]
Repeated(x, n) == [i \in 1..n |-> x]

SecurityAssociations ==
    {[proposals |-> ps] :
        ps \in SeqsUpTo(SampleProposals, MaxProposals)
               \cup {ManyEmpty("InternetKeyExchange", 100),
                     ManyEmpty("GroupIKEUpdate", 100),
                     Repeated(FullIke, 254), Repeated(EmptyGroup, 254),
                     Repeated(FullIke, 255)}}

SampleNonce == [i \in 1..16 |-> i]
SamplePayloads ==
    {Payload("SecurityAssociation", [proposals |-> <<>>]),
     Payload("SecurityAssociation", [proposals |-> <<FullIke>>]),
     Generic("Nonce", SampleNonce),
     Generic("Nonce", SubSeq(SampleNonce, 1, 15)),
     Generic("VendorID", <<>>),
     Generic("VendorID", <<1, 2, 3>>),
     Generic("EncryptedAndAuthenticated", <<7, 7>>),
     Payload("KeyExchange", [dh_group |-> "ModP6144", data |-> <<1, 2>>]),
     Payload("Notify", [variant |-> "NoProposalChosen", data |-> <<>>,
                        protocol |-> "InternetKeyExchange", spi |-> None])}

\* the payloads of the test generate_and_parse_packet
TestPayloads ==
    <<Generic("VendorID", <<1, 2, 3>>), Generic("Nonce", SampleNonce),
      Payload("SecurityAssociation", [proposals |-> <<>>]),
      Generic("EncryptedAndAuthenticated", <<7, 7>>)>>

SampleHeaders ==
    {<<1337, 0, "IkeSaInit", TRUE, FALSE, 0>>,
     <<1337, 301030307, "Informational", FALSE, TRUE, 999999999>>}

Packets ==
    {IKEv2(h[1], h[2], h[3], h[4], h[5], h[6], ps) :
        h \in SampleHeaders,
        ps \in SeqsUpTo(SamplePayloads, MaxPayloads)
               \cup {TestPayloads, Repeated(Generic("VendorID", <<>>), 254),
                     Repeated(Generic("VendorID", <<>>), 255)}}

\* the identifier spaces and the enum of each
Spaces ==
    [ExchangeType |-> ExchangeType, PayloadType |-> PayloadType,
     TransformType |-> TransformType, AttributeType |-> AttributeType,
     EncryptionAlgorithm |-> EncryptionAlgorithm,
     PseudorandomFunction |-> PseudorandomFunction,
     IntegrityAlgorithm |-> IntegrityAlgorithm,
     KeyExchangeMethod |-> KeyExchangeMethod,
     SequenceNumberType |-> SequenceNumberType,
     NotifyErrorMessage |-> NotifyErrorMessage,
     SecurityProtocol |-> SecurityProtocol]

\* the integer width of the space: u8 or u16
Width(space) ==
    IF space \in {"ExchangeType", "PayloadType", "TransformType",
                  "SecurityProtocol"}
    THEN U8Mod ELSE U16Mod

\* T::try_from(value)
try_from(space, value) ==
    CASE space = "ExchangeType" -> ExchangeType_try_from(value)
      [] space = "PayloadType" -> PayloadType_try_from(value)
      [] space = "TransformType" -> TransformType_try_from(value)
      [] space = "AttributeType" -> AttributeType_try_from(value)
      [] space = "EncryptionAlgorithm" -> EncryptionAlgorithm_try_from(value)
      [] space = "PseudorandomFunction" ->
             PseudorandomFunction_try_from(value)
      [] space = "IntegrityAlgorithm" -> IntegrityAlgorithm_try_from(value)
      [] space = "KeyExchangeMethod" -> KeyExchangeMethod_try_from(value)
      [] space = "SequenceNumberType" -> SequenceNumberType_try_from(value)
      [] space = "NotifyErrorMessage" -> NotifyErrorMessage_try_from(value)
      [] space = "SecurityProtocol" -> SecurityProtocol_try_from(value)

\* every value of the integer width of every space
Identifiers ==
    {id \in [space : DOMAIN Spaces, value : 0..(U16Mod - 1)] :
        id.value < Width(id.space)}

\* proposals of every protocol with each of the five lists empty or not
OneOrNone(x) == {<<>>, <<x>>}
RuleProposals ==
    {Proposal(protocol, <<>>, enc, prf, integ, ke, sn) :
        protocol \in {"InternetKeyExchange", "AuthenticationHeader",
                      "EncapsulatingSecurityPayload", "GroupIKEUpdate"},
        enc \in OneOrNone(<<"AesCbc", Some(256)>>),
        prf \in OneOrNone("HmacSha2_256"),
        integ \in OneOrNone("HmacSha1_96"),
        ke \in OneOrNone("Curve25519"),
        sn \in OneOrNone("Sequential32bit")}

Subject(kind, val) == [kind |-> kind, val |-> val]

InitIkev2 ==
    /\ kpc = "new"
    /\ subject \in {Subject("sa", sa) : sa \in SecurityAssociations}
                   \cup {Subject("packet", p) : p \in Packets}
                   \cup {Subject("id", id) : id \in Identifiers}
                   \cup {Subject("proposal", p) : p \in RuleProposals}
    /\ built = NotRun /\ parsed = NotRun
    /\ CodecIdle /\ TruncIdle /\ BisectIdle /\ ScanIdle /\ RecvIdle

\* sa.try_build(PayloadType::NoNextPayload)
BuildSecurityAssociation ==
    /\ kpc = "new" /\ subject.kind = "sa"
    /\ built' = SecurityAssociation_try_build(subject.val, "NoNextPayload")
    /\ kpc' = "built"
    /\ UNCHANGED <<subject, parsed, codecVars, truncVars, bisectVars,
                   scanVars, recvVars>>

\* SecurityAssociation::try_parse(&bytes[size_of::<GenericPayloadHeader>()..])
ParseSecurityAssociation ==
    /\ kpc = "built" /\ subject.kind = "sa" /\ built.tag = "Ok"
    /\ parsed' = SecurityAssociation_try_parse(
                     Bytes(built.val, GenericPayloadHeaderSize,
                           Len(built.val)))
    /\ kpc' = "parsed"
    /\ UNCHANGED <<subject, built, codecVars, truncVars, bisectVars,
                   scanVars, recvVars>>

\* ike.try_build()
BuildPacket ==
    /\ kpc = "new" /\ subject.kind = "packet"
    /\ built' = IKEv2_try_build(subject.val)
    /\ kpc' = "built"
    /\ UNCHANGED <<subject, parsed, codecVars, truncVars, bisectVars,
                   scanVars, recvVars>>

\* IKEv2::try_parse(&bytes)
ParsePacket ==
    /\ kpc = "built" /\ subject.kind = "packet" /\ built.tag = "Ok"
    /\ parsed' = IKEv2_try_parse(built.val)
    /\ kpc' = "parsed"
    /\ UNCHANGED <<subject, built, codecVars, truncVars, bisectVars,
                   scanVars, recvVars>>

\* T::try_from(value)
ConvertIdentifier ==
    /\ kpc = "new" /\ subject.kind = "id"
    /\ parsed' = try_from(subject.val.space, subject.val.value)
    /\ kpc' = "parsed"
    /\ UNCHANGED <<subject, built, codecVars, truncVars, bisectVars,
                   scanVars, recvVars>>

\* proposal.try_build(1, true)
BuildProposal ==
    /\ kpc = "new" /\ subject.kind = "proposal"
    /\ built' = Proposal_try_build(subject.val, 1, TRUE)
    /\ kpc' = "built"
    /\ UNCHANGED <<subject, parsed, codecVars, truncVars, bisectVars,
                   scanVars, recvVars>>

\* Proposal::try_parse on the bytes a peer sends for the proposal: the
\* header, the SPI and the transforms, whatever try_build says about them
ParseProposalBytes ==
    /\ kpc = "built" /\ subject.kind = "proposal"
    /\ parsed' = Proposal_try_parse(Proposal_packet(subject.val, 1, TRUE), 0)
    /\ kpc' = "parsed"
    /\ UNCHANGED <<subject, built, codecVars, truncVars, bisectVars,
                   scanVars, recvVars>>

NextIkev2 ==
    \/ BuildSecurityAssociation \/ ParseSecurityAssociation
    \/ BuildPacket \/ ParsePacket \/ ConvertIdentifier
    \/ BuildProposal \/ ParseProposalBytes

SpecIkev2 == InitIkev2 /\ [][NextIkev2]_vars

(***************************************************************************)
(* The claims.                                                             *)
(***************************************************************************)
CeilDiv(a, b) == (a + b - 1) \div b

\* the concatenation of the members of a sequence of sequences
RECURSIVE Concat(_, _)
Concat(ss, k) == IF k = 0 THEN <<>> ELSE Concat(ss, k - 1) \o ss[k]

\* how often x occurs in the sequence s
Count(s, x) == Cardinality({i \in DOMAIN s : s[i] = x})

\* C1: with the responder answering every probe as prescribed and no failure
\* of the socket, a scan that returned Ok, all of whose probes were answered,
\* returns exactly the accepted transforms, each once.
C1_ResultIsAccepted ==
    (pc = "done_ok" /\ faults = 0 /\ net = <<>>)
        => /\ Range(result.val) = accepted
           /\ Len(result.val) = Cardinality(accepted)

\* a scan that returned both accepted transforms after every reply was
\* taken from the channel
C1_Witness ==
    /\ pc = "done_ok" /\ faults = 0 /\ net = <<>> /\ chan = <<>>
    /\ Cardinality(accepted) = 2 /\ Range(result.val) = accepted
    /\ Len(result.val) = 2

AllRejectedDone ==
    /\ pc = "done_ok"
    /\ result = Ok(<<>>)
    /\ Len(sent) = CeilDiv(Cardinality(Candidates), transform_no)
    /\ Concat(sent, Len(sent)) = V1Transforms

\* C2: when nothing is accepted, so that every probe is answered with
\* NO_PROPOSAL_CHOSEN, and the ticks keep firing, then unless the socket
\* fails scan eventually returns Ok with an empty result after exactly one
\* probe per initial batch, ceil(|candidates| / transform_no) probes, and
\* it never sends another probe.
C2_AllRejectedTerminates ==
    (accepted = {})
        => /\ <>(faults # 0 \/ AllRejectedDone)
           /\ [](Len(sent) <= CeilDiv(Cardinality(Candidates), transform_no))

C2_Witness ==
    /\ accepted = {} /\ faults = 0 /\ transform_no = 3
    /\ AllRejectedDone /\ Len(sent) = 3 /\ chan # <<>>

\* the least k with s * 2^k >= n: ceil(log2(n / s))
RECURSIVE CeilLog2Ratio(_, _)
CeilLog2Ratio(n, s) == IF s >= n THEN 0 ELSE 1 + CeilLog2Ratio(n, 2 * s)

\* C3, as stated: with a non-empty accepted set S the probes sent are at
\* most |S| * (ceil(log2(|candidates| / |S|)) + 1) + 1.
C3_ProbeBoundStated ==
    (accepted # {} /\ faults = 0)
        => Len(sent) <= Cardinality(accepted)
                            * (CeilLog2Ratio(Cardinality(Candidates),
                                             Cardinality(accepted)) + 1) + 1

\* C3, amended: the probes sent are at most one per initial batch and two
\* per accepted transform: ceil(|candidates| / transform_no) + 2 * |S|.
C3_ProbeBound ==
    Len(sent) <= CeilDiv(Cardinality(Candidates), transform_no)
                     + 2 * Cardinality(accepted)

\* a finished scan that found both accepted transforms of one batch and
\* sent probes for the halves of two remainders
C3_Witness ==
    /\ pc = "done_ok" /\ faults = 0 /\ transform_no = 4
    /\ Cardinality(accepted) = 2 /\ Range(result.val) = accepted
    /\ Len(sent) = CeilDiv(Cardinality(Candidates), transform_no) + 3

\* the receive branch takes ReceiveError::Io from the channel
TakesIoError ==
    /\ pc = "select" /\ chan # <<>> /\ Head(chan) = Err("Io")
    /\ chan' = Tail(chan)
\* a cookie is registered and no probe is transmitted: socket.send failed
SendFails == ~(DOMAIN open' \subseteq DOMAIN open) /\ sent' = sent
NoRetry == \A i, j \in DOMAIN sent : i # j => sent[i] # sent[j]

C5_RoundTrip ==
    /\ cpc \in {"parsed", "decoded"}
         => /\ packet.tag = "Ok"
            /\ Len(packet.val.security_associations) = 1
            /\ Len(packet.val.security_associations[1].proposal_payload) = 1
    /\ cpc = "decoded" => decoded = Ok(batch)

C5_Witness ==
    /\ cpc = "decoded" /\ Len(batch) = 255 /\ decoded = Ok(batch)

\* the byte count before padding: the header, the SA payload with its
\* situation, the proposal, and per transform the payload header, six
\* attributes and the key length attribute if there is a key length
RECURSIVE SizeOfTransforms(_, _, _)
SizeOfTransforms(b, lo, hi) ==
    IF lo > hi THEN 0
    ELSE IF lo = hi THEN (IF b[lo].key_size = None THEN 32 ELSE 36)
    ELSE SizeOfTransforms(b, lo, (lo + hi) \div 2)
         + SizeOfTransforms(b, (lo + hi) \div 2 + 1, hi)
UnpaddedSize(b) == 28 + 12 + 8 + SizeOfTransforms(b, 1, Len(b))

\* C6: the header length field of the built message is its byte count and
\* a multiple of 4, less than 4 above the count before padding, and the
\* bytes past that count are zero.
C6_LengthField ==
    cpc # "new"
        => /\ U32At(msg, 24) = Len(msg)
           /\ Len(msg) % 4 = 0
           /\ Len(msg) >= UnpaddedSize(batch)
           /\ Len(msg) < UnpaddedSize(batch) + 4
           /\ \A i \in (UnpaddedSize(batch) + 1)..Len(msg) : msg[i] = 0

C6_Witness ==
    /\ cpc = "built" /\ Len(batch) = 500
    /\ U32At(msg, 24) = Len(msg) /\ Len(msg) = 48 + 250 * 32 + 250 * 36

\* C7: the proposal of the built message carries no_of_transforms = N, and
\* the i-th transform payload carries the transform number i and the
\* next-payload type Transform, or None if it is the last.
C7_TransformNumbers ==
    cpc # "new"
        => /\ U8At(msg, 47) = Len(batch)
           /\ \A i \in 0..(Len(batch) - 1) :
                 /\ U8At(msg, 48 + SizeOfTransforms(batch, 1, i) + 4) = i
                 /\ U8At(msg, 48 + SizeOfTransforms(batch, 1, i))
                        = IF i < Len(batch) - 1 THEN PT_Transform ELSE PT_None

C7_Witness ==
    /\ cpc = "built" /\ Len(batch) = 255 /\ U8At(msg, 47) = 255

\* C8: a payload parser on a buffer shorter than the length the payload
\* declares returns the error BufferTooSmall.
C8_TruncatedIsBufferTooSmall ==
    (tres # NotRun /\ Len(tbuf) < tdeclared) => tres = Err("BufferTooSmall")

C8_Witness ==
    /\ tkind = PT_Transform /\ Len(tbuf) < StaticTransformSize
    /\ tres = Err("BufferTooSmall")

\* the candidates of the claim: every combination of non-zero values, with
\* no key length unless the encryption is AES_CBC, and then with each of
\* the three key lengths
ExpectedCandidates ==
    {Transform(e, h, a, g, k) :
        e \in Range(EncryptionAlgorithmIter) \ {0, AES_CBC},
        h \in Range(HashAlgorithmIter) \ {0},
        a \in Range(AuthenticationMethodIter) \ {0},
        g \in Range(GroupDescriptionIter) \ {0},
        k \in {None}}
    \cup
    {Transform(AES_CBC, h, a, g, Some(k)) :
        h \in Range(HashAlgorithmIter) \ {0},
        a \in Range(AuthenticationMethodIter) \ {0},
        g \in Range(GroupDescriptionIter) \ {0},
        k \in IF AES_CBC \in Range(EncryptionAlgorithmIter)
              THEN {128, 192, 256} ELSE {}}

\* the place of a candidate in the enumeration: the places of its values in
\* the iterators, the encryption first, then the key length
PlaceIn(iter, x) == CHOOSE i \in DOMAIN iter : iter[i] = x
Place(t) ==
    <<PlaceIn(EncryptionAlgorithmIter, t.encryption_algorithm),
      PlaceIn(HashAlgorithmIter, t.hash_algorithm),
      PlaceIn(AuthenticationMethodIter, t.authentication_method),
      PlaceIn(GroupDescriptionIter, t.group_description),
      KeyRank(t.key_size)>>

InStableOrder(c) ==
    \A i, j \in DOMAIN c : i < j => LexLess(Place(c[i]), Place(c[j]), 1)

\* C9: the batches gen_v1_transforms returns, concatenated, are the
\* candidates in the order of the enumeration, none twice; every batch is
\* non-empty and every batch but the last has transform_no members.
C9_Enumeration ==
    (pc = "select" /\ sent = <<>>)
        => /\ Range(Concat(todo, Len(todo))) = ExpectedCandidates
           /\ Len(Concat(todo, Len(todo))) = Cardinality(ExpectedCandidates)
           /\ InStableOrder(Concat(todo, Len(todo)))
           /\ \A k \in DOMAIN todo :
                 /\ todo[k] # <<>>
                 /\ k < Len(todo) => Len(todo[k]) = transform_no

C9_Witness ==
    /\ pc = "select" /\ sent = <<>> /\ transform_no = 3
    /\ Len(todo) = 3 /\ Len(todo[3]) = 2
    /\ todo[1][1] = Transform(5, 1, 1, 2, None)
    /\ todo[3][2] = Transform(AES_CBC, 2, 1, 2, Some(256))

\* C10: the halves A and B of a remainder of n transforms have ceil(n/2)
\* and floor(n/2) members and together hold each member of the remainder as
\* often as the remainder does; the queue gets A and B when B is non-empty,
\* A alone when only A is non-empty, and nothing when n = 0.
C10_Bisection ==
    /\ bpc \in {"split", "pushed"}
         => /\ Len(halves[1]) = CeilDiv(Len(rem), 2)
            /\ Len(halves[2]) = Len(rem) \div 2
            /\ \A x \in SampleTransforms :
                  Count(halves[1], x) + Count(halves[2], x) = Count(rem, x)
    /\ bpc = "pushed"
         => /\ Len(rem) = 0 => queue = <<>>
            /\ Len(rem) = 1 => queue = <<halves[1]>>
            /\ Len(rem) >= 2 => queue = <<halves[1], halves[2]>>
            /\ \A k \in DOMAIN queue : queue[k] # <<>>

C10_Witness ==
    /\ bpc = "pushed" /\ Len(rem) = 3 /\ rem[1] = rem[3] /\ rem[1] # rem[2]
    /\ queue = <<<<rem[1], rem[3]>>, <<rem[2]>>>>

\* C11, as stated: the half A followed by the half B is the remainder.
C11_ConcatIsRemainder ==
    bpc \in {"split", "pushed"} => halves[1] \o halves[2] = rem

\* C11, amended: each half keeps the order of the remainder: A holds its
\* members at the positions 1, 3, 5, ... and B those at 2, 4, 6, ...
C11_HalvesKeepOrder ==
    bpc \in {"split", "pushed"}
        => /\ halves[1] = [i \in 1..CeilDiv(Len(rem), 2) |-> rem[2 * i - 1]]
           /\ halves[2] = [i \in 1..(Len(rem) \div 2) |-> rem[2 * i]]

\* a remainder of four different transforms, split into <<1st, 3rd>> and
\* <<2nd, 4th>>
C11_Witness ==
    /\ bpc = "split" /\ Len(rem) = 4 /\ Cardinality(Range(rem)) = 4
    /\ halves = <<<<rem[1], rem[3]>>, <<rem[2], rem[4]>>>>
    /\ halves[1] \o halves[2] # rem

\* the receive branch takes a parsed message from the channel
TakesResponse ==
    /\ pc = "select" /\ chan # <<>> /\ Head(chan).tag = "Ok"
    /\ chan' = Tail(chan)
IsPositive(m) == m.security_associations # <<>>
IsNegative(m) ==
    /\ m.security_associations = <<>>
    /\ AnyNoProposalChosen(m.notification_payloads)
CookieKnown(m) == m.header.initiator_cookie \in DOMAIN open

\* the transforms the proposals of a response name
DecodedSet(r) == IF r.tag = "Ok" THEN Range(r.val) ELSE {}
AcceptedIn(sa) ==
    UNION {DecodedSet(payload_to_transforms(sa.proposal_payload[j])) :
           j \in DOMAIN sa.proposal_payload}
AcceptedBy(m) ==
    UNION {AcceptedIn(m.security_associations[i]) :
           i \in DOMAIN m.security_associations}

\* C15: handling a positive response to an in-flight batch appends at most
\* two batches to the pending queue, none of them with an accepted member,
\* and together they hold every non-accepted member of the batch exactly
\* once and nothing else.
C15_RemainderSplitOnce ==
    [][(TakesResponse /\ IsPositive(Head(chan).val)
            /\ CookieKnown(Head(chan).val))
         => LET m == Head(chan).val
                resolved == open[m.header.initiator_cookie]
                appended == SubSeq(todo', Len(todo) + 1, Len(todo'))
                members == Concat(appended, Len(appended))
            IN  /\ SubSeq(todo', 1, Len(todo)) = todo
                /\ Len(appended) <= 2
                /\ Range(members) \cap AcceptedBy(m) = {}
                /\ Range(members) \subseteq Range(resolved)
                /\ \A x \in Range(resolved) \ AcceptedBy(m) :
                      Count(members, x) = 1]_vars

\* a response with one proposal was handled: the two halves of the
\* remainder of a batch of four are at the tail of the queue
C15_Witness ==
    /\ pc = "select" /\ chan = <<>> /\ Len(sent) = 1 /\ DOMAIN open = {}
    /\ transform_no = 4 /\ Len(found) = 1 /\ found[1] \in Range(sent[1])
    /\ Len(todo) = Len(gen_v1_transforms(4)) + 1
    /\ Len(todo[Len(todo) - 1]) = 2 /\ Len(todo[Len(todo)]) = 1

\* C16: no batch registered in the in-flight map is in the pending queue.
C16_InFlightNotPending ==
    \A c \in DOMAIN open : \A k \in DOMAIN todo : todo[k] # open[c]

\* a probe in flight while the halves of an earlier remainder are pending
C16_Witness ==
    /\ pc = "select" /\ Len(sent) = 2 /\ Cardinality(DOMAIN open) = 1
    /\ Len(found) = 1 /\ todo # <<>> /\ C16_InFlightNotPending

\* C17: handling a positive or NO_PROPOSAL_CHOSEN response whose initiator
\* cookie is not in the in-flight map leaves the pending queue, the
\* in-flight map, the result set and do_sleep unchanged.
C17_UnknownCookieIgnored ==
    [][(TakesResponse /\ ~CookieKnown(Head(chan).val)
            /\ (IsPositive(Head(chan).val) \/ IsNegative(Head(chan).val)))
         => UNCHANGED <<todo, open, found, do_sleep>>]_vars

\* a NO_PROPOSAL_CHOSEN response with an unknown cookie was handled
C17_Witness ==
    /\ pc = "select" /\ chan = <<>> /\ Len(sent) = 1
    /\ DOMAIN open = {U64Bytes(1)} /\ found = <<>> /\ ~do_sleep
    /\ todo = Tail(gen_v1_transforms(transform_no))

\* C18: handling a message with no SA payload and a NO_PROPOSAL_CHOSEN
\* notification removes the in-flight entry of its initiator cookie and
\* nothing else: every other entry, the pending queue, the result set and
\* do_sleep are unchanged.
C18_NoProposalChosenRemoves ==
    [][(TakesResponse /\ IsNegative(Head(chan).val))
         => /\ DOMAIN open'
                 = DOMAIN open \ {Head(chan).val.header.initiator_cookie}
            /\ \A c \in DOMAIN open' : open'[c] = open[c]
            /\ UNCHANGED <<todo, found, do_sleep>>]_vars

\* two probes sent, the NO_PROPOSAL_CHOSEN reply to one of them handled and
\* the other still in flight
C18_Witness ==
    /\ pc = "select" /\ faults = 0 /\ accepted = {} /\ Len(sent) = 2
    /\ Cardinality(DOMAIN open) = 1 /\ chan = <<>> /\ Len(net) = 1
    /\ found = <<>> /\ ~do_sleep

\* C19: scan returns Ok only from the second of two consecutive ticks that
\* both found the pending queue empty, and no response is left in the
\* channel unhandled when it returns.
C19_HandledBeforeReturn ==
    [][(pc # "done_ok" /\ pc' = "done_ok")
         => /\ pc = "second_tick" /\ todo = <<>>
            /\ \A i \in DOMAIN chan : chan[i].tag # "Ok"]_vars

\* a scan that found its one accepted transform and returned with every
\* response handled
C19_Witness ==
    /\ pc = "done_ok" /\ faults = 0 /\ chan = <<>> /\ net = <<>>
    /\ Cardinality(accepted) = 1 /\ Range(result.val) = accepted
    /\ todo = <<>>

\* a positive response: an SA payload with at least one proposal
HasProposals(m) ==
    \E i \in DOMAIN m.security_associations :
        m.security_associations[i].proposal_payload # <<>>
HandlesPositive == TakesResponse /\ HasProposals(Head(chan).val)

\* C20: handling a positive response sets do_sleep; with do_sleep set no
\* probe is sent except right after the sleep; the sleep clears do_sleep;
\* the driver sleeps only with do_sleep set, and only a positive response
\* sets it.
C20_SleepAfterPositive ==
    [][/\ HandlesPositive => do_sleep'
       /\ (sent' # sent \/ pc' = "err_send") => (pc = "sleep" \/ ~do_sleep)
       /\ (pc = "sleep" /\ pc' # "sleep") => ~do_sleep'
       /\ (pc # "sleep" /\ pc' = "sleep") => do_sleep
       /\ (~do_sleep /\ do_sleep') => HandlesPositive]_vars

\* a probe was sent after the sleep that followed a positive response
C20_Witness ==
    /\ pc = "select" /\ faults = 0 /\ found # <<>> /\ ~do_sleep
    /\ cur = NoBatch /\ Len(sent) >= 3

\* C12: a Security Association of IKEv2 of at most 254 proposals, proposals
\* without any transform included, is built without an error, and parsing
\* the bytes after the generic payload header returns an equal Security
\* Association, the proposals in their order.
C12_SaRoundTrip ==
    (subject.kind = "sa" /\ Len(subject.val.proposals) <= 254)
    => /\ kpc \in {"built", "parsed"} => built.tag = "Ok"
       /\ kpc = "parsed" => parsed = Ok(subject.val)

\* 100 empty proposals of a protocol without mandatory transforms, each with
\* its own SPI byte, were built and parsed back in their order
C12_Witness ==
    /\ kpc = "parsed" /\ subject.kind = "sa"
    /\ subject.val.proposals = ManyEmpty("GroupIKEUpdate", 100)
    /\ parsed = Ok(subject.val)

\* C13: for every packet that IKEv2::try_build accepts, IKEv2::try_parse on
\* the built bytes returns Ok with an equal packet: the same cookies,
\* exchange type, flags and message id, the same payloads in the same order.
C13_PacketRoundTrip ==
    (subject.kind = "packet" /\ kpc = "parsed") => parsed = Ok(subject.val)

\* the packet of the test (vendor id, nonce, empty Security Association,
\* encrypted payload) was built and parsed back
C13_Witness ==
    /\ kpc = "parsed" /\ subject.kind = "packet"
    /\ subject.val.payloads = TestPayloads
    /\ parsed = Ok(subject.val)

\* the classes the documentation of AttributeType assigns
AttributeTypeDocumented(value) ==
    CASE value = AttributeType.KeyLength -> Ok("KeyLength")
      [] value = AttributeType.SignatureAlgorithm -> Ok("SignatureAlgorithm")
      [] value \in (0..13) \cup (15..17) -> Err("Reserved")
      [] value \in 19..16383 -> Err("Unassigned")
      [] value \in 16384..32767 -> Err("PrivateUse")
      [] value \in 32768..65535 -> Err("OutOfRange")

\* C14: try_from returns the known variant whose wire value the integer is,
\* and otherwise a failure class; for AttributeType the class is the one of
\* the documented ranges: 0-13 and 15-17 Reserved, 19-16383 Unassigned,
\* 16384-32767 PrivateUse, 32768-65535 OutOfRange.
C14_TryFromClasses ==
    (subject.kind = "id" /\ kpc = "parsed")
    => /\ parsed.tag = "Ok"
          <=> \E n \in DOMAIN Spaces[subject.val.space] :
                  Spaces[subject.val.space][n] = subject.val.value
       /\ parsed.tag = "Ok"
          => Spaces[subject.val.space][parsed.val] = subject.val.value
       /\ parsed.tag = "Err"
          => parsed.err \in {"Reserved", "Unassigned", "PrivateUse",
                             "OutOfRange"}
       /\ subject.val.space = "AttributeType"
          => parsed = AttributeTypeDocumented(subject.val.value)

\* the wire value of the key length was converted to its variant
C14_Witness ==
    /\ kpc = "parsed" /\ subject.kind = "id"
    /\ subject.val = [space |-> "AttributeType", value |-> 14]
    /\ parsed = Ok("KeyLength")

\* the proposals of a response, the SA payloads in their order
RECURSIVE ProposalsOfFirst(_, _)
ProposalsOfFirst(sas, k) ==
    IF k = 0 THEN <<>>
    ELSE ProposalsOfFirst(sas, k - 1) \o sas[k].proposal_payload
ProposalsOf(m) ==
    ProposalsOfFirst(m.security_associations, Len(m.security_associations))

Decodable(prop) == payload_to_transforms(prop).tag = "Ok"

\* the transforms the first k of the proposals decode to, one after another
RECURSIVE DecodedOfFirst(_, _)
DecodedOfFirst(props, k) ==
    IF k = 0 THEN <<>>
    ELSE DecodedOfFirst(props, k - 1)
         \o (IF Decodable(props[k]) THEN payload_to_transforms(props[k]).val
             ELSE <<>>)

\* the response without the proposals payload_to_transforms rejects
WithoutUndecodable(m) ==
    [m EXCEPT !.security_associations =
        [i \in DOMAIN m.security_associations |->
            [m.security_associations[i] EXCEPT
                !.proposal_payload = SelectSeq(@, Decodable)]]]

HasUndecodable(m) ==
    \E i \in DOMAIN ProposalsOf(m) : ~Decodable(ProposalsOf(m)[i])

\* the effect of the receive branch on the message m in the current state
Handled(m) ==
    OnMessage([todo |-> todo, found |-> found, do_sleep |-> do_sleep,
               open |-> open], m)

\* C21: when payload_to_transforms fails on a proposal of a positive
\* response, the result set gets the transforms of the other proposals
\* only, the pending queue gets what the response without that proposal
\* would enqueue (nothing when no proposal decodes), and the in-flight entry
\* of the message's cookie is removed while every other entry stays.
C21_UndecodableSkipped ==
    [][(TakesResponse /\ IsPositive(Head(chan).val)
            /\ HasUndecodable(Head(chan).val))
         => LET m == Head(chan).val
                props == ProposalsOf(m)
            IN  /\ found' = found \o DecodedOfFirst(props, Len(props))
                /\ todo' = Handled(WithoutUndecodable(m)).todo
                /\ (\A i \in DOMAIN props : ~Decodable(props[i]))
                      => UNCHANGED <<todo, found>>
                /\ DOMAIN open' = DOMAIN open \ {m.header.initiator_cookie}
                /\ \A c \in DOMAIN open' : open'[c] = open[c]]_vars

\* the response to the first probe, whose only proposal does not decode,
\* was handled: the batch resolved and nothing was found or enqueued
C21_Witness ==
    /\ pc = "select" /\ chan = <<>> /\ Len(sent) = 1 /\ DOMAIN open = {}
    /\ do_sleep /\ found = <<>> /\ faults = 0
    /\ todo = Tail(gen_v1_transforms(transform_no))

\* the receive branch takes an event, a message or an error, from the
\* channel
TakesEvent == pc = "select" /\ chan # <<>> /\ chan' = Tail(chan)
IsInvalidMessage(ev) == ev.tag = "Err" /\ ev.err = "InvalidMessage"
IsUnknownMessage(ev) ==
    ev.tag = "Ok" /\ ~IsPositive(ev.val) /\ ~IsNegative(ev.val)

\* C22: handling an InvalidMessage error, or a message with neither an SA
\* payload nor a NO_PROPOSAL_CHOSEN notification, leaves the pending queue,
\* the in-flight map, the result set and do_sleep unchanged, and the scan
\* goes on: the driver is back at the select and has not returned.
C22_IgnoredEvents ==
    [][(TakesEvent /\ (IsInvalidMessage(Head(chan))
                          \/ IsUnknownMessage(Head(chan))))
         => /\ UNCHANGED <<todo, open, found, do_sleep>>
            /\ pc' = "select"
            /\ result' = NotRun]_vars

\* the parse error of a datagram was handled while the first probe is in
\* flight: the receive task runs and the driver is at the select
C22_Witness ==
    /\ pc = "select" /\ faults = 1 /\ rtask = "running" /\ chan = <<>>
    /\ Len(sent) = 1 /\ DOMAIN open = {U64Bytes(1)} /\ found = <<>>
    /\ ~do_sleep /\ result = NotRun

NoDuplicates(s) == \A i, j \in DOMAIN s : i # j => s[i] # s[j]
GoodBatch(b) == b # <<>> /\ NoDuplicates(b) /\ Len(b) <= transform_no

\* C23: every batch in the pending queue and every batch in the in-flight
\* map is non-empty, holds no transform twice and has at most transform_no
\* members, whatever the responder answered.
C23_BatchesWellFormed ==
    /\ \A k \in DOMAIN todo : GoodBatch(todo[k])
    /\ \A c \in DOMAIN open : GoodBatch(open[c])

\* the halves of a remainder are pending behind the first batches while a
\* later probe is in flight
C23_Witness ==
    /\ pc = "select" /\ transform_no = 4 /\ Len(sent) = 2
    /\ DOMAIN open = {U64Bytes(2)} /\ Len(open[U64Bytes(2)]) = 4
    /\ Len(todo) = 2 /\ Len(todo[1]) = 2 /\ Len(todo[2]) = 2
    /\ C23_BatchesWellFormed

(***************************************************************************)
(* C24: the receive task after a datagram that fails to parse.             *)
(***************************************************************************)
\* a step of handle_receive in which s.recv returned a datagram
ReadsDatagram == hpc = "recv" /\ wire # <<>> /\ wire' = Tail(wire)

\* C24: a step of the receive task that reads a datagram which fails to
\* parse leaves the task running (it reads the next datagram), and the task
\* returns only with the I/O error of the socket.
C24_ParseFailureKeepsRunning ==
    [][/\ (ReadsDatagram /\ parse_packet(Head(wire)).tag = "Err")
           => hpc' = "recv"
       /\ (hpc = "recv" /\ hpc' = "returned") => hret' = IoError]_vars

\* the task ran on after a datagram that parsed, and stopped on the I/O
\* error of the socket
C24_Witness ==
    /\ hpc = "returned" /\ hret = IoError
    /\ hpacket.tag = "Ok" /\ wire # <<>>

(***************************************************************************)
(* C25: the proposals of an SA payload and their transforms.               *)
(***************************************************************************)
\* r is a parsed packet with one SA payload whose proposals are, in order,
\* one proposal per member of xs with that member as its only transform
OwnTransforms(r, xs) ==
    /\ r.tag = "Ok"
    /\ Len(r.val.security_associations) = 1
    /\ Len(r.val.security_associations[1].proposal_payload) = Len(xs)
    /\ \A i \in DOMAIN xs :
           payload_to_transforms(
               r.val.security_associations[1].proposal_payload[i])
           = Ok(<<xs[i]>>)

\* C25: the proposal parser walks transforms only within the declared
\* length of the proposal: an SA reply with two proposals is parsed into
\* two proposals, each with exactly its own transform, as an SA reply with
\* one proposal is parsed into that proposal.
C25_ProposalsKeepOwnTransforms ==
    [][ReadsDatagram =>
         /\ (Head(wire) = TwoProposalReply(1, V1Transforms[1], V1Transforms[2])
               => OwnTransforms(hpacket', <<V1Transforms[1], V1Transforms[2]>>))
         /\ (Head(wire) = SaReply(U64Bytes(1), V1Transforms[1])
               => OwnTransforms(hpacket', <<V1Transforms[1]>>))]_vars

\* the reply with one proposal was parsed into that proposal
C25_Witness ==
    /\ hpc = "recv" /\ wire = <<>> /\ hmap # EmptyMap
    /\ OwnTransforms(hpacket, <<V1Transforms[1]>>)

(***************************************************************************)
(* C30: parse_packet returns on every datagram.                            *)
(***************************************************************************)
\* C30: parse_packet terminates on every input buffer, a notification of
\* declared length 0 whose next-payload tag is Notification included: the
\* payload walk never repeats a pass on the same bytes, and handle_receive
\* is never stuck inside the parser.
C30_ParsePacketTerminates == hpacket.tag # "Hang" /\ hpc # "hang"

\* parse_packet returned the packet of a message with one notification
\* whose declared length is its size
C30_Witness ==
    /\ hpacket.tag = "Ok"
    /\ Len(hpacket.val.notification_payloads) = 1
    /\ hpacket.val.notification_payloads[1].length = StaticNotificationSize
    /\ hpacket.val.header.initiator_cookie = U64Bytes(7)

(***************************************************************************)
(* C26: the mandatory-transform rule in the generator and in the parser.   *)
(***************************************************************************)
\* the rule as the claim states it
ViolatesRule(p) ==
    \/ /\ p.protocol = "InternetKeyExchange"
       /\ \/ p.encryption_algorithms = <<>>
          \/ p.pseudo_random_functions = <<>>
          \/ p.key_exchange_methods = <<>>
    \/ /\ p.protocol = "AuthenticationHeader"
       /\ p.encryption_algorithms = <<>> \/ p.sequence_numbers = <<>>
    \/ /\ p.protocol = "EncapsulatingSecurityPayload"
       /\ p.integrity_algorithms = <<>> \/ p.sequence_numbers = <<>>

\* C26: the proposal generator and the proposal parser both return
\* MissingMandatoryTransform for every proposal that violates the rule, a
\* proposal without any transform included, and both accept every proposal
\* that satisfies it.
C26_MandatoryRuleBothWays ==
    (kpc = "parsed" /\ subject.kind = "proposal")
        => IF ViolatesRule(subject.val)
           THEN /\ built = Err("MissingMandatoryTransform")
                /\ parsed = Err("MissingMandatoryTransform")
           ELSE built.tag = "Ok" /\ parsed.tag = "Ok"

\* an IKE proposal with an encryption transform only is refused by both
C26_Witness ==
    /\ kpc = "parsed" /\ subject.kind = "proposal"
    /\ subject.val.protocol = "InternetKeyExchange"
    /\ Proposal_len(subject.val) = 1
    /\ subject.val.encryption_algorithms # <<>>
    /\ built = Err("MissingMandatoryTransform")
    /\ parsed = Err("MissingMandatoryTransform")

(***************************************************************************)
(* C29: IKEv2::try_parse returns on every packet.                          *)
(***************************************************************************)
\* C29: IKEv2::try_parse terminates on every buffer with Ok or an error,
\* also when a next-payload tag names a type the payload walk does not
\* decode (KeyExchange, Notify, ...): every pass of the walk stops or
\* advances to a later payload.
C29_TryParseTerminates ==
    (kpc = "parsed" /\ subject.kind = "packet") => parsed.tag \in {"Ok", "Err"}

\* try_parse returned on a packet of two payloads the walk decodes
C29_Witness ==
    /\ kpc = "parsed" /\ subject.kind = "packet"
    /\ subject.val.payloads
         = <<Generic("Nonce", SampleNonce), Generic("VendorID", <<>>)>>
    /\ parsed.tag = "Ok"
    /\ Len(parsed.val.payloads) = 2

(***************************************************************************)
(* C27, C28: what a positive response puts in the queue and in the result. *)
(***************************************************************************)
\* the batches a step appended to the queue
Appended == {todo'[k] : k \in (Len(todo) + 1)..Len(todo')}

\* the transforms a step appended to the result set
Reported == {found'[k] : k \in (Len(found) + 1)..Len(found')}

\* C27: a resolved batch is never put back in the queue whole: every batch
\* that the handling of a response to an in-flight batch appends to the
\* queue is strictly smaller than that batch, whatever the responder sent,
\* so that the pending work shrinks and scan returns.
C27_ChildrenStrictlySmaller ==
    [][(TakesResponse /\ IsPositive(Head(chan).val)
        /\ CookieKnown(Head(chan).val))
       => \A child \in Appended :
              Len(child) < Len(open[Head(chan).val.header.initiator_cookie])
      ]_vars

\* a batch of four was resolved by a response naming one member: the three
\* others are back in the queue as halves of two and one
C27_Witness ==
    /\ pc = "select" /\ transform_no = 4 /\ Len(sent) = 1
    /\ DOMAIN open = {} /\ Len(found) = 1 /\ found[1] \in Range(sent[1])
    /\ Len(todo) = 3 /\ Len(todo[2]) = 2 /\ Len(todo[3]) = 1

\* C28: every transform of the result was a member of a transmitted batch
\* and was reported by a response whose initiator cookie was registered in
\* the in-flight map for that batch when the response was handled.
C28_ReportedFromOwnBatch ==
    [][(TakesResponse /\ IsPositive(Head(chan).val))
       => \A x \in Reported :
              /\ CookieKnown(Head(chan).val)
              /\ x \in Range(open[Head(chan).val.header.initiator_cookie])
      ]_vars

\* scan returned a transform of the first batch, reported by a response
\* with the cookie of that batch
C28_Witness ==
    /\ pc = "done_ok" /\ result.tag = "Ok"
    /\ Len(result.val) = 1 /\ result.val[1] \in Range(sent[1])
    /\ found = result.val /\ transform_no = 2

====
